---- MODULE Spec2Model ----
(***************************************************************************)
(* Concurrent hash tables of qindo-beanbean/concurrent_hash_table:         *)
(* SequentialHashTable, CoarseGrainedHashTable(+Padded),                   *)
(* FineGrainedHashTable(+Padded), SegmentBasedHashTable(+Padded),          *)
(* LockStripedHashTable, AGHHashTable and LockFreeHashTable.               *)
(*                                                                         *)
(* Keys and values are int.  Hash<int> wraps std::hash<int>, which for a   *)
(* non-negative int is the value itself.  The size_t counter is kept as an *)
(* integer n standing for n mod 2^64: it compares with a small natural     *)
(* exactly when n is that natural, and a negative n is a wrapped counter.  *)
(***************************************************************************)
EXTENDS Integers, Sequences, FiniteSets, TLC

VARIABLES
    cfg,            \* constructor arguments: variant, bucket_count, num_locks, expected_threads
    mode,           \* workload: "seq", "mixed", "few", "disjoint", "insonly", "fill", "churn", ...
    segments,       \* AGH: per segment buckets_per_segment, stripe_count, stripe_mask
    buckets,        \* lock-based: bucket id -> list of KeyValue; lock-free: bucket id -> head
    locks,          \* lock id -> 0 (unset) or the thread that set it
    nodes,          \* lock-free heap: address -> Node and its allocation state
    element_count,  \* the atomic size counter
    crashed,        \* the process was killed (integer division by zero)
    th,             \* per thread: position in the method and its locals
    ops,            \* number of calls made so far
    hist,           \* history kept for the properties: abstract map, result counts
    workload,       \* run_workload: its arguments, loops and random generators
    matrix          \* the benchmark's main: position in the sweep, cache, rows

vars == <<cfg, mode, segments, buckets, locks, nodes, element_count, crashed, th, ops, hist,
         workload, matrix>>

(***************************************************************************)
(* Bounds of the model.                                                    *)
(***************************************************************************)
NThreads == 2
MaxOps   == 3
MaxNodes == 3
MaxCalls == 2
MaxChurn == 4
MaxSeqOps == 4
BenchOps == 4
MaxUniverse == 4
MaxDraws == 3
MaxExpectedThreads == 70
MaxBps == 34
MaxBucketCount == 260
MaxData == 3

Threads == 1..NThreads
Vals    == {1, 2}
Addrs   == 1..(IF mode = "bench" THEN BenchOps ELSE MaxNodes)
nullptr == 0

(***************************************************************************)
(* Program constants.                                                      *)
(***************************************************************************)
SEG_NUM_SEGMENTS   == 16
AGH_NUM_SEGMENTS   == 128
AGH_MAX_STRIPES    == 32
AGH_STRIPE_FACTOR  == 2

LockVariants == {"Coarse", "CoarsePadded", "Fine", "FinePadded",
                 "Segment", "SegmentPadded", "Striped", "AGH"}
Variants     == {"Sequential", "LockFree"} \cup LockVariants

(***************************************************************************)
(* Bit operations on naturals, as the C++ operators compute them.          *)
(***************************************************************************)
RECURSIVE BitAnd(_, _)
BitAnd(a, b) ==
    IF a = 0 \/ b = 0 THEN 0
    ELSE (IF a % 2 = 1 /\ b % 2 = 1 THEN 1 ELSE 0) + 2 * BitAnd(a \div 2, b \div 2)

RECURSIVE BitOr(_, _)
BitOr(a, b) ==
    IF a = 0 THEN b
    ELSE IF b = 0 THEN a
    ELSE (IF a % 2 = 1 \/ b % 2 = 1 THEN 1 ELSE 0) + 2 * BitOr(a \div 2, b \div 2)

RECURSIVE Shr(_, _)
Shr(x, n) == IF n = 0 THEN x ELSE Shr(x \div 2, n - 1)

Hash(k) == k

(***************************************************************************)
(* AGH construction.                                                       *)
(***************************************************************************)
next_pow2(x) ==
    IF x <= 1 THEN 1
    ELSE LET x0 == x - 1
             x1 == BitOr(x0, Shr(x0, 1))
             x2 == BitOr(x1, Shr(x1, 2))
             x3 == BitOr(x2, Shr(x2, 4))
             x4 == BitOr(x3, Shr(x3, 8))
             x5 == BitOr(x4, Shr(x4, 16))
             x6 == BitOr(x5, Shr(x5, 32))
         IN  x6 + 1

\* A stripe count that is not fitted to the segment.
KeepStripes(k, bps) == k

RECURSIVE HalveToFit(_, _)
HalveToFit(k, bps) == IF k > bps /\ k > 1 THEN HalveToFit(k \div 2, bps) ELSE k

choose_stripes(bps, expected_threads) ==
    LET target == expected_threads \div AGH_STRIPE_FACTOR
        k0 == next_pow2(target)
        k1 == IF k0 > AGH_MAX_STRIPES THEN AGH_MAX_STRIPES ELSE k0
        k2 == IF k1 < 1 THEN 1 ELSE k1
        k3 == HalveToFit(k2, bps)
    IN  IF k3 # 0 THEN k3 ELSE 1

Segment(bps, stripes_pow2) ==
    [buckets_per_segment |-> bps,
     stripe_count        |-> stripes_pow2,
     stripe_mask         |-> IF stripes_pow2 # 0 THEN stripes_pow2 - 1 ELSE 0]

\* Segments of bucket_count / NUM_SEGMENTS buckets each, without the remainder.
AGHSegmentEven(i, bucket_count, expected_threads) ==
    Segment(bucket_count \div AGH_NUM_SEGMENTS,
            choose_stripes(bucket_count \div AGH_NUM_SEGMENTS, expected_threads))

\* The i-th segment the constructor's loop builds.
AGHSegment(i, bucket_count, expected_threads) ==
    LET base == bucket_count \div AGH_NUM_SEGMENTS
        rem  == bucket_count % AGH_NUM_SEGMENTS
        bps  == base + (IF i < rem THEN 1 ELSE 0)
    IN  Segment(bps, choose_stripes(bps, expected_threads))

AGHHashTable(bucket_count, expected_threads) ==
    [i \in 0..(AGH_NUM_SEGMENTS - 1) |-> AGHSegment(i, bucket_count, expected_threads)]

(***************************************************************************)
(* Index computations.  A bucket id and a lock id are pairs                *)
(* <<segment, index>>; the variants without segments use segment 0.        *)
(***************************************************************************)
FlatBucket(h) == <<0, h % cfg.bucket_count>>

SegBps ==
    IF cfg.bucket_count \div SEG_NUM_SEGMENTS = 0 THEN 1
    ELSE cfg.bucket_count \div SEG_NUM_SEGMENTS

SegmentBucket(h) == <<h % SEG_NUM_SEGMENTS, Shr(h, 4) % SegBps>>

SegmentPaddedBucket(h) == <<h % SEG_NUM_SEGMENTS, h % SegBps>>

SegmentLock(h) == <<h % SEG_NUM_SEGMENTS, 0>>

num_locks_ == IF cfg.num_locks # 0 THEN cfg.num_locks ELSE 1

StripedLock(h) == <<0, h % num_locks_>>

seg_index(h) == h % AGH_NUM_SEGMENTS

\* The divisor is zero in a segment that was built with no bucket.
AGHDividesByZero(h) == segments[seg_index(h)].buckets_per_segment = 0

bucket_index(h, bps) == (h \div AGH_NUM_SEGMENTS) % bps

AGHBucket(h) ==
    <<seg_index(h), bucket_index(h, segments[seg_index(h)].buckets_per_segment)>>

AGHStripe(s, bi) == IF s.stripe_count > 1 THEN BitAnd(bi, s.stripe_mask) ELSE 0

\* A stripe taken from the hash instead of the bucket index.
AGHLockFromHash(h) ==
    LET si == seg_index(h)
        s  == segments[si]
    IN  <<si, IF s.stripe_count > 1
              THEN BitAnd(h \div AGH_NUM_SEGMENTS, s.stripe_mask) ELSE 0>>

\* One lock for a whole segment, whatever the bucket.
AGHSegmentLock(h) == <<seg_index(h), 0>>

AGHLock(h) ==
    LET si == seg_index(h)
        s  == segments[si]
        bi == bucket_index(h, s.buckets_per_segment)
    IN  <<si, AGHStripe(s, bi)>>

BucketOf(k) ==
    LET h == Hash(k) IN
    CASE cfg.variant = "Segment"       -> SegmentBucket(h)
      [] cfg.variant = "SegmentPadded" -> SegmentPaddedBucket(h)
      [] cfg.variant = "AGH"           -> AGHBucket(h)
      [] OTHER                         -> FlatBucket(h)

CoarseLock == <<0, 0>>

LockOf(k) ==
    LET h == Hash(k) IN
    CASE cfg.variant \in {"Coarse", "CoarsePadded"}   -> CoarseLock
      [] cfg.variant \in {"Fine", "FinePadded"}       -> FlatBucket(h)
      [] cfg.variant \in {"Segment", "SegmentPadded"} -> SegmentLock(h)
      [] cfg.variant = "Striped"                      -> StripedLock(h)
      [] cfg.variant = "AGH"                          -> AGHLock(h)

(***************************************************************************)
(* Constructor arguments and key universes of the model.  The keys of a    *)
(* table are chosen so that two of them share a bucket and one does not.   *)
(***************************************************************************)
Config(v, b, m, t) ==
    [variant |-> v, bucket_count |-> b, num_locks |-> m, expected_threads |-> t]

Configs ==
    {Config(v, 2, 0, 0) : v \in {"Sequential", "Coarse", "CoarsePadded", "Fine", "FinePadded"}}
    \cup {Config("LockFree", b, 0, 0) : b \in {1, 2}}
    \cup {Config(v, b, 0, 0) : v \in {"Segment", "SegmentPadded"}, b \in {16, 32}}
    \cup {Config("Striped", 4, 2, 0), Config("Striped", 3, 2, 0)}
    \cup {Config("AGH", 1, 0, 4), Config("AGH", 384, 0, 4)}

Keys ==
    CASE mode = "bench"                               -> 0..(BenchOps - 1)
      [] mode \in {"insonly", "churn", "readers"}     -> {0, 1}
      [] cfg.variant \in {"Segment", "SegmentPadded"} -> {0, 16, 1}
      [] cfg.variant = "Striped"                      -> {0, 4, 1}
      [] cfg.variant = "AGH" /\ cfg.bucket_count = 1  -> {0, 128, 1}
      [] cfg.variant = "AGH"                          -> {0, 128, 384}
      [] OTHER                                        -> {0, 1, 2}

Crashes(k) == cfg.variant = "AGH" /\ AGHDividesByZero(Hash(k))

BucketIds == {BucketOf(k) : k \in {x \in Keys : ~Crashes(x)}}

LockIds ==
    IF cfg.variant \in LockVariants
    THEN {LockOf(k) : k \in {x \in Keys : ~Crashes(x)}}
    ELSE {}

(***************************************************************************)
(* Lists of KeyValue.                                                      *)
(***************************************************************************)
KeyValue(k, v) == [key |-> k, value |-> v]

HasKey(l, k) == \E i \in 1..Len(l) : l[i].key = k

IndexOf(l, k) == CHOOSE i \in 1..Len(l) : l[i].key = k /\ \A j \in 1..(i - 1) : l[j].key # k

ValueOf(l, k) == l[IndexOf(l, k)].value

SetValue(l, k, v) ==
    IF HasKey(l, k) THEN [l EXCEPT ![IndexOf(l, k)].value = v] ELSE l

Erase(l, k) ==
    IF HasKey(l, k)
    THEN LET i == IndexOf(l, k) IN SubSeq(l, 1, i - 1) \o SubSeq(l, i + 1, Len(l))
    ELSE l

KeysPrefix(s, l) ==
    /\ Len(s) <= Len(l)
    /\ \A i \in 1..Len(s) : s[i].key = l[i].key

\* emplace_back links the new element behind the tail it read.  With the
\* bucket's guard held no other thread changes the list, and the tail is the
\* current one.  When another thread appends to the same list at the same
\* time (a data race), the element may be linked behind the tail seen before,
\* which unlinks what was appended in between.
emplace_back(l, seen, e) ==
    {Append(l, e)}
    \cup (IF KeysPrefix(seen, l) THEN {Append(SubSeq(l, 1, Len(seen)), e)} ELSE {})

(***************************************************************************)
(* Threads.                                                                *)
(***************************************************************************)
NoCall == [op |-> "none", key |-> 0, val |-> 0]

Idle ==
    [pc |-> "idle", op |-> "none", key |-> 0, val |-> 0,
     res |-> FALSE, out |-> 0, seen |-> <<>>,
     node |-> nullptr, head |-> nullptr, cur |-> nullptr, prev |-> nullptr,
     nxt |-> nullptr, retried |-> FALSE, known |-> FALSE,
     exp |-> [res |-> FALSE, out |-> 0], before |-> NoCall]

Active == IF mode = "seq" THEN {1} ELSE Threads

InLock(t) == th[t].pc \in {"scan", "apply", "release"}

Returned(t) == th[t].pc = "done"

Quiescent == \A t \in Threads : th[t].pc \in {"idle", "done"}

\* A node is "unused" (never allocated), "private" (allocated, not yet in a
\* chain), "linked" (published by a successful exchange) or "free" (deleted).
NoNode == [key |-> 0, value |-> 0, next |-> nullptr, st |-> "unused"]

\* new Node: the allocator returns a deleted node's address or a fresh one.
\* Fresh addresses are interchangeable, so the lowest one stands for all.
Allocatable ==
    {a \in Addrs : nodes[a].st = "free"}
    \cup {a \in Addrs : nodes[a].st = "unused" /\ \A x \in Addrs : nodes[x].st = "unused" => a <= x}

\* No benchmark is running.
NoWorkload == [phase |-> "none"]

NoMatrix == [phase |-> "none"]

InitTable(configs, m) ==
    /\ cfg \in configs
    /\ mode = m
    /\ segments = IF cfg.variant = "AGH"
                  THEN AGHHashTable(cfg.bucket_count, cfg.expected_threads)
                  ELSE <<>>
    /\ buckets = [b \in BucketIds |-> IF cfg.variant = "LockFree" THEN nullptr ELSE <<>>]
    /\ locks = [l \in LockIds |-> 0]
    /\ nodes = [a \in Addrs |-> NoNode]
    /\ element_count = 0
    /\ crashed = FALSE
    /\ th = [t \in Threads |-> Idle]
    /\ ops = 0
    /\ hist = [abs      |-> [k \in Keys |-> 0],
               net      |-> [k \in Keys |-> 0],
               called   |-> {},
               uaf      |-> FALSE]

InitWith(variants, m) ==
    /\ InitTable({c \in Configs : c.variant \in variants}, m)
    /\ workload = NoWorkload
    /\ matrix = NoMatrix

(***************************************************************************)
(* The callers.  "seq": one thread calls any method, MaxSeqOps calls;      *)
(* "mixed" and "few": every thread calls any method, MaxOps or MaxCalls    *)
(* calls in all;                                                           *)
(* "insonly": every thread inserts, MaxCalls calls in all; "disjoint": the *)
(* concurrent test - the threads insert disjoint keys with value key * 10  *)
(* and, once all have finished, search the keys; "fill": thread 1 inserts  *)
(* every key, then the threads call remove, MaxCalls calls in all;         *)
(* "churn": every thread inserts and removes, MaxChurn calls in all;       *)
(* "drain": the threads insert disjoint keys with value key * 10 and,     *)
(* once all have finished, thread 1 calls remove, MaxCalls calls;          *)
(* "readers": thread 1 enters insert(0, 1), then every thread inserts     *)
(* (value 2) and searches, MaxCalls calls in all; "once": every thread     *)
(* calls one method, any of them; "bench": the calls of run_workload;      *)
(* "reuse": thread 1 inserts the keys of one bucket, then the threads       *)
(* remove them and insert the keys of the other buckets, MaxCalls + 1 calls.*)
(***************************************************************************)
\* The keys of the bucket of key k.
Sharing(k) == {x \in Keys : BucketOf(x) = BucketOf(k)}

Owner(k) == (Cardinality({x \in Keys : x < k}) % NThreads) + 1

Methods ==
    {"insert", "search", "remove"}
    \cup (IF cfg.variant \in {"Fine", "FinePadded"} THEN {"increment"} ELSE {})

Arguments(o) ==
    IF o \in {"insert", "increment"}
    THEN {[op |-> o, key |-> k, val |-> v] : k \in Keys, v \in Vals}
    ELSE {[op |-> o, key |-> k, val |-> 0] : k \in Keys}

Calls(t) ==
    CASE mode = "seq" ->
            IF ops < MaxSeqOps THEN UNION {Arguments(o) : o \in Methods} ELSE {}
      [] mode = "mixed" ->
            IF ops < MaxOps THEN UNION {Arguments(o) : o \in Methods} ELSE {}
      [] mode = "insonly" ->
            IF ops < MaxCalls THEN Arguments("insert") ELSE {}
      [] mode = "few" ->
            IF ops < MaxCalls THEN UNION {Arguments(o) : o \in Methods} ELSE {}
      [] mode = "once" ->
            IF th[t].pc = "idle" THEN UNION {Arguments(o) : o \in Methods} ELSE {}
      [] mode = "disjoint" ->
            IF hist.called # Keys
            THEN {[op |-> "insert", key |-> k, val |-> k * 10] :
                      k \in {x \in Keys \ hist.called : Owner(x) = t}}
            ELSE IF Quiescent /\ ops < Cardinality(Keys) + NThreads
                 THEN Arguments("search")
                 ELSE {}
      [] mode = "readers" ->
            IF ops = 0
            THEN IF t = 1 THEN {[op |-> "insert", key |-> 0, val |-> 1]} ELSE {}
            ELSE IF ops < 1 + MaxCalls
                 THEN {[op |-> "insert", key |-> k, val |-> 2] : k \in Keys}
                      \cup Arguments("search")
                 ELSE {}
      [] mode = "churn" ->
            IF ops < MaxChurn
            THEN {[op |-> "insert", key |-> k, val |-> 1] : k \in Keys}
                 \cup Arguments("remove")
            ELSE {}
      [] mode = "drain" ->
            IF hist.called # Keys
            THEN {[op |-> "insert", key |-> k, val |-> k * 10] :
                      k \in {x \in Keys \ hist.called : Owner(x) = t}}
            ELSE IF Quiescent /\ t = 1 /\ ops < Cardinality(Keys) + MaxCalls
                 THEN Arguments("remove")
                 ELSE {}
      [] mode = "reuse" ->
            IF ~(Sharing(0) \subseteq hist.called)
            THEN IF t = 1
                 THEN {[op |-> "insert", key |-> k, val |-> 1] : k \in Sharing(0) \ hist.called}
                 ELSE {}
            ELSE IF ops < Cardinality(Keys) + MaxCalls
                 THEN {[op |-> "remove", key |-> k, val |-> 0] : k \in Sharing(0)}
                      \cup {[op |-> "insert", key |-> k, val |-> 1] : k \in Keys \ Sharing(0)}
                 ELSE {}
      [] mode = "fill" ->
            IF hist.called # Keys
            THEN IF t = 1
                 THEN {[op |-> "insert", key |-> k, val |-> 1] : k \in Keys \ hist.called}
                 ELSE {}
            ELSE IF ops < Cardinality(Keys) + MaxCalls
                 THEN Arguments("remove")
                 ELSE {}

\* known: an insert of the key had returned when the method was entered.
Started(t, c) ==
    [Idle EXCEPT !.op = c.op, !.key = c.key, !.val = c.val,
                 !.known = mode = "readers" /\ hist.abs[c.key] # 0,
                 !.before = IF mode = "seq"
                            THEN [op |-> th[t].op, key |-> th[t].key, val |-> th[t].val]
                            ELSE NoCall]

\* What the method returns on the map abs when it runs alone.
AbsRes(abs, c) ==
    IF c.op = "search"
    THEN [res |-> abs[c.key] # 0, out |-> abs[c.key]]
    ELSE IF c.op \in {"insert", "increment"}
    THEN [res |-> abs[c.key] = 0, out |-> 0]
    ELSE [res |-> abs[c.key] # 0, out |-> 0]

AbsNext(abs, c) ==
    CASE c.op = "insert"    -> [abs EXCEPT ![c.key] = c.val]
      [] c.op = "increment" -> [abs EXCEPT ![c.key] = @ + c.val]
      [] c.op = "remove"    -> [abs EXCEPT ![c.key] = 0]
      [] OTHER              -> abs

Recorded(c, r) ==
    [hist EXCEPT !.abs = AbsNext(@, c),
                 !.net[c.key] = CASE c.op \in {"insert", "increment"} /\ r -> @ + 1
                                  [] c.op = "remove" /\ r                  -> @ - 1
                                  [] OTHER                                 -> @]

\* The keys the callers of the two-phase workloads have used so far.
Called(h, c) ==
    [h EXCEPT !.called = IF mode \in {"disjoint", "fill", "drain", "reuse"} THEN @ \cup {c.key} ELSE @]

\* A method is entered: its index computation runs, and the lock-free insert
\* allocates its node before its loop.  A modulus by zero is undefined: the
\* process is killed by the division, or the division yields some number and
\* the method goes on with a bucket that does not exist, returning whatever
\* it finds there.
Enter(t, c) ==
    /\ ~crashed
    /\ th[t].pc \in {"idle", "done"}
    /\  /\ ops' = ops + 1
        /\ IF Crashes(c.key)
           THEN /\ \/ /\ crashed' = TRUE
                      /\ th' = [th EXCEPT ![t] = [Started(t, c) EXCEPT !.pc = "crashed"]]
                      /\ hist' = Called(hist, c)
                   \/ /\ crashed' = crashed
                      /\ \E r \in BOOLEAN :
                            /\ th' = [th EXCEPT ![t] = [Started(t, c) EXCEPT
                                          !.pc = "done", !.res = r,
                                          !.exp = AbsRes(hist.abs, c)]]
                            /\ hist' = Called(Recorded(c, r), c)
                /\ UNCHANGED nodes
           ELSE /\ crashed' = crashed
                /\ hist' = Called(hist, c)
                /\ IF cfg.variant = "LockFree"
                   THEN IF c.op = "insert"
                        THEN \E a \in Allocatable :
                               /\ nodes' = [nodes EXCEPT ![a] =
                                     [key |-> c.key, value |-> c.val,
                                      next |-> nullptr, st |-> "private"]]
                               /\ th' = [th EXCEPT ![t] =
                                     [Started(t, c) EXCEPT !.pc = "ins_load", !.node = a]]
                        ELSE /\ th' = [th EXCEPT ![t] = [Started(t, c) EXCEPT
                                     !.pc = IF c.op = "search" THEN "sea_load" ELSE "rem_load"]]
                             /\ UNCHANGED nodes
                   ELSE /\ th' = [th EXCEPT ![t] = [Started(t, c) EXCEPT
                                     !.pc = IF cfg.variant = "Sequential"
                                            THEN "scan" ELSE "acquire"]]
                        /\ UNCHANGED nodes
    /\ UNCHANGED <<cfg, mode, segments, buckets, locks, element_count>>

\* The callers of the tests.
Call(t) ==
    /\ t \in Active
    /\ \E c \in Calls(t) : Enter(t, c)
    /\ UNCHANGED <<workload, matrix>>

(***************************************************************************)
(* The lock-based tables and the sequential one: omp_set_lock, the walk    *)
(* over the bucket's list, the change of the list and of the counter,      *)
(* omp_unset_lock.                                                         *)
(***************************************************************************)
\* A lock that is taken without waiting for it to be unset.
SetLockWithoutWaiting(t) ==
    /\ ~crashed
    /\ th[t].pc = "acquire"
    /\ locks' = [locks EXCEPT ![LockOf(th[t].key)] = t]
    /\ th' = [th EXCEPT ![t].pc = "scan"]
    /\ UNCHANGED <<cfg, mode, segments, buckets, nodes, element_count, crashed, ops, hist,
                   workload, matrix>>

omp_set_lock(t) ==
    /\ ~crashed
    /\ th[t].pc = "acquire"
    /\ locks[LockOf(th[t].key)] = 0
    /\ locks' = [locks EXCEPT ![LockOf(th[t].key)] = t]
    /\ th' = [th EXCEPT ![t].pc = "scan"]
    /\ UNCHANGED <<cfg, mode, segments, buckets, nodes, element_count, crashed, ops, hist,
                   workload, matrix>>

Scan(t) ==
    /\ ~crashed
    /\ th[t].pc = "scan"
    /\ th' = [th EXCEPT ![t].pc = "apply", ![t].seen = buckets[BucketOf(th[t].key)]]
    /\ UNCHANGED <<cfg, mode, segments, buckets, locks, nodes, element_count, crashed, ops, hist,
                   workload, matrix>>

NextPc == IF cfg.variant = "Sequential" THEN "done" ELSE "release"

Finish(t, r, o) ==
    th' = [th EXCEPT ![t].pc = NextPc, ![t].res = r, ![t].out = o, ![t].seen = <<>>,
                     ![t].exp = AbsRes(hist.abs, th[t])]

insert(t) ==
    LET b == BucketOf(th[t].key)
        found == HasKey(th[t].seen, th[t].key)
    IN  /\ th[t].op = "insert"
        /\ IF found
           THEN /\ buckets' = [buckets EXCEPT ![b] = SetValue(@, th[t].key, th[t].val)]
                /\ UNCHANGED element_count
           ELSE /\ \E l \in emplace_back(buckets[b], th[t].seen,
                                         KeyValue(th[t].key, th[t].val)) :
                       buckets' = [buckets EXCEPT ![b] = l]
                /\ element_count' = element_count + 1
        /\ Finish(t, ~found, 0)
        /\ hist' = Recorded(th[t], ~found)

\* An increment that stores the delta.
ReplaceBy(v, delta) == delta

\* kv.value += delta;
AddTo(v, delta) == v + delta

increment(t) ==
    LET b == BucketOf(th[t].key)
        found == HasKey(th[t].seen, th[t].key)
    IN  /\ th[t].op = "increment"
        /\ IF found
           THEN /\ buckets' = [buckets EXCEPT ![b] =
                       IF HasKey(@, th[t].key)
                       THEN SetValue(@, th[t].key, AddTo(ValueOf(@, th[t].key), th[t].val))
                       ELSE @]
                /\ UNCHANGED element_count
           ELSE /\ \E l \in emplace_back(buckets[b], th[t].seen,
                                         KeyValue(th[t].key, th[t].val)) :
                       buckets' = [buckets EXCEPT ![b] = l]
                /\ element_count' = element_count + 1
        /\ Finish(t, ~found, 0)
        /\ hist' = Recorded(th[t], ~found)

search(t) ==
    LET found == HasKey(th[t].seen, th[t].key)
    IN  /\ th[t].op = "search"
        /\ Finish(t, found, IF found THEN ValueOf(th[t].seen, th[t].key) ELSE th[t].out)
        /\ hist' = Recorded(th[t], found)
        /\ UNCHANGED <<buckets, element_count>>

remove(t) ==
    LET b == BucketOf(th[t].key)
        found == HasKey(th[t].seen, th[t].key)
    IN  /\ th[t].op = "remove"
        /\ IF found
           THEN /\ buckets' = [buckets EXCEPT ![b] = Erase(@, th[t].key)]
                /\ element_count' = element_count - 1
           ELSE UNCHANGED <<buckets, element_count>>
        /\ Finish(t, found, 0)
        /\ hist' = Recorded(th[t], found)

Apply(t) ==
    /\ ~crashed
    /\ th[t].pc = "apply"
    /\ CASE th[t].op = "insert"    -> insert(t)
         [] th[t].op = "increment" -> increment(t)
         [] th[t].op = "search"    -> search(t)
         [] th[t].op = "remove"    -> remove(t)
    /\ UNCHANGED <<cfg, mode, segments, locks, nodes, crashed, ops, workload, matrix>>

omp_unset_lock(t) ==
    /\ ~crashed
    /\ th[t].pc = "release"
    /\ locks' = [locks EXCEPT ![LockOf(th[t].key)] = 0]
    /\ th' = [th EXCEPT ![t].pc = "done"]
    /\ UNCHANGED <<cfg, mode, segments, buckets, nodes, element_count, crashed, ops, hist,
                   workload, matrix>>


(***************************************************************************)
(* The lock-free table.  Every load, store and compare_exchange of an      *)
(* atomic is a step.  A deleted node keeps its bytes until its address is  *)
(* allocated again; an access to a deleted node is recorded in hist.uaf.   *)
(***************************************************************************)
Deref(a) == nodes[a]

\* return r; the method's locals go out of scope.
Return(t, r, o) ==
    th' = [th EXCEPT ![t].pc = "done", ![t].res = r, ![t].out = o,
                     ![t].node = nullptr, ![t].head = nullptr, ![t].cur = nullptr,
                     ![t].prev = nullptr, ![t].nxt = nullptr,
                     ![t].exp = AbsRes(hist.abs, th[t])]

Freed(a) == nodes[a].st = "free"

LFFrame == ~crashed /\ UNCHANGED <<cfg, mode, segments, locks, crashed, ops, workload, matrix>>

\* Node* head = buckets[idx].head.load(); Node* current = head;
InsertLoadHead(t) ==
    /\ th[t].pc = "ins_load"
    /\ th' = [th EXCEPT ![t].pc = "ins_walk",
                        ![t].head = buckets[BucketOf(th[t].key)],
                        ![t].cur = buckets[BucketOf(th[t].key)]]
    /\ UNCHANGED <<buckets, nodes, element_count, hist>>
    /\ LFFrame

\* A delete of the node that is in the chain instead of the new one.
DiscardsCurrent(t) == th[t].cur

\* delete new_node;
Discarded(t) == th[t].node

\* One round of while (current): the key is compared, and either the value
\* is replaced and new_node deleted, or current->next is loaded.
InsertWalk(t) ==
    /\ th[t].pc = "ins_walk"
    /\ IF th[t].cur = nullptr
       THEN /\ th' = [th EXCEPT ![t].pc = "ins_link"]
            /\ UNCHANGED <<nodes, hist>>
       ELSE /\ IF Deref(th[t].cur).key = th[t].key
               THEN /\ nodes' = [[nodes EXCEPT ![th[t].cur].value = th[t].val]
                                        EXCEPT ![Discarded(t)].st = "free"]
                    /\ Return(t, FALSE, th[t].out)
                    /\ hist' = [Recorded(th[t], FALSE) EXCEPT
                                   !.uaf = @ \/ Freed(th[t].cur)]
               ELSE /\ th' = [th EXCEPT ![t].cur = Deref(th[t].cur).next]
                    /\ hist' = [hist EXCEPT !.uaf = @ \/ Freed(th[t].cur)]
                    /\ UNCHANGED nodes
    /\ UNCHANGED <<buckets, element_count>>
    /\ LFFrame

\* A node published without the chain behind it.
InsertLinkNothing(t) ==
    /\ th[t].pc = "ins_link"
    /\ nodes' = [nodes EXCEPT ![th[t].node].next = nullptr]
    /\ th' = [th EXCEPT ![t].pc = "ins_cas"]
    /\ UNCHANGED <<buckets, element_count, hist>>
    /\ LFFrame

\* new_node->next.store(head);
InsertLink(t) ==
    /\ th[t].pc = "ins_link"
    /\ nodes' = [nodes EXCEPT ![th[t].node].next = th[t].head]
    /\ th' = [th EXCEPT ![t].pc = "ins_cas"]
    /\ UNCHANGED <<buckets, element_count, hist>>
    /\ LFFrame

\* An exchange that does not compare.
ExchangeWithoutCompare(actual, expected) == TRUE

\* compare_exchange_weak(expected, desired) on a bucket's head: it may store
\* only when the head is the expected pointer.
compare_exchange_weak(actual, expected) == actual = expected

\* if (buckets[idx].head.compare_exchange_weak(head, new_node)): on success
\* the node is published; on failure (the head differs, or the weak exchange
\* fails spuriously) the loop starts again.
InsertCas(t) ==
    /\ th[t].pc = "ins_cas"
    /\ \/ /\ compare_exchange_weak(buckets[BucketOf(th[t].key)], th[t].head)
          /\ buckets' = [buckets EXCEPT ![BucketOf(th[t].key)] = th[t].node]
          /\ nodes' = [nodes EXCEPT ![th[t].node].st = "linked"]
          /\ th' = [th EXCEPT ![t].pc = "ins_count"]
       \/ /\ th' = [th EXCEPT ![t].pc = "ins_load",
                              ![t].retried =
                                  @ \/ buckets[BucketOf(th[t].key)] # th[t].head]
          /\ UNCHANGED <<buckets, nodes>>
    /\ UNCHANGED <<element_count, hist>>
    /\ LFFrame

\* element_count++; return true;
InsertCount(t) ==
    /\ th[t].pc = "ins_count"
    /\ element_count' = element_count + 1
    /\ Return(t, TRUE, th[t].out)
    /\ hist' = Recorded(th[t], TRUE)
    /\ UNCHANGED <<buckets, nodes>>
    /\ LFFrame

\* Node* current = buckets[idx].head.load();
SearchLoadHead(t) ==
    /\ th[t].pc = "sea_load"
    /\ th' = [th EXCEPT ![t].pc = "sea_walk", ![t].cur = buckets[BucketOf(th[t].key)]]
    /\ UNCHANGED <<buckets, nodes, element_count, hist>>
    /\ LFFrame

SearchWalk(t) ==
    /\ th[t].pc = "sea_walk"
    /\ IF th[t].cur = nullptr
       THEN /\ Return(t, FALSE, th[t].out)
            /\ hist' = Recorded(th[t], FALSE)
       ELSE IF Deref(th[t].cur).key = th[t].key
            THEN /\ Return(t, TRUE, Deref(th[t].cur).value)
                 /\ hist' = [Recorded(th[t], TRUE) EXCEPT !.uaf = @ \/ Freed(th[t].cur)]
            ELSE /\ th' = [th EXCEPT ![t].cur = Deref(th[t].cur).next]
                 /\ hist' = [hist EXCEPT !.uaf = @ \/ Freed(th[t].cur)]
    /\ UNCHANGED <<buckets, nodes, element_count>>
    /\ LFFrame

\* Node* head = buckets[idx].head.load(); current = head; prev = nullptr;
RemoveLoadHead(t) ==
    /\ th[t].pc = "rem_load"
    /\ th' = [th EXCEPT ![t].pc = "rem_walk",
                        ![t].head = buckets[BucketOf(th[t].key)],
                        ![t].cur = buckets[BucketOf(th[t].key)],
                        ![t].prev = nullptr]
    /\ UNCHANGED <<buckets, nodes, element_count, hist>>
    /\ LFFrame

RemoveWalk(t) ==
    /\ th[t].pc = "rem_walk"
    /\ IF th[t].cur = nullptr
       THEN /\ Return(t, FALSE, th[t].out)
            /\ hist' = Recorded(th[t], FALSE)
       ELSE IF Deref(th[t].cur).key = th[t].key
            THEN /\ th' = [th EXCEPT ![t].pc = "rem_next"]
                 /\ hist' = [hist EXCEPT !.uaf = @ \/ Freed(th[t].cur)]
            ELSE /\ th' = [th EXCEPT ![t].prev = th[t].cur,
                                     ![t].cur = Deref(th[t].cur).next]
                 /\ hist' = [hist EXCEPT !.uaf = @ \/ Freed(th[t].cur)]
    /\ UNCHANGED <<buckets, nodes, element_count>>
    /\ LFFrame

\* current->next.load(), the argument of the exchange or of the store
RemoveLoadNext(t) ==
    /\ th[t].pc = "rem_next"
    /\ th' = [th EXCEPT ![t].pc = IF th[t].prev = nullptr THEN "rem_cas" ELSE "rem_store",
                        ![t].nxt = Deref(th[t].cur).next]
    /\ hist' = [hist EXCEPT !.uaf = @ \/ Freed(th[t].cur)]
    /\ UNCHANGED <<buckets, nodes, element_count>>
    /\ LFFrame

\* if (buckets[idx].head.compare_exchange_weak(head, current->next.load()))
RemoveCas(t) ==
    /\ th[t].pc = "rem_cas"
    /\ \/ /\ compare_exchange_weak(buckets[BucketOf(th[t].key)], th[t].head)
          /\ buckets' = [buckets EXCEPT ![BucketOf(th[t].key)] = th[t].nxt]
          /\ th' = [th EXCEPT ![t].pc = "rem_free"]
       \/ /\ th' = [th EXCEPT ![t].pc = "rem_load",
                              ![t].retried =
                                  @ \/ buckets[BucketOf(th[t].key)] # th[t].head]
          /\ UNCHANGED buckets
    /\ UNCHANGED <<nodes, element_count, hist>>
    /\ LFFrame

\* A mid-chain node that is deleted without being unlinked.
RemoveStoreNothing(t) ==
    /\ th[t].pc = "rem_store"
    /\ th' = [th EXCEPT ![t].pc = "rem_free"]
    /\ UNCHANGED <<buckets, nodes, element_count, hist>>
    /\ LFFrame

\* prev->next.store(current->next.load());
RemoveStore(t) ==
    /\ th[t].pc = "rem_store"
    /\ nodes' = [nodes EXCEPT ![th[t].prev].next = th[t].nxt]
    /\ th' = [th EXCEPT ![t].pc = "rem_free"]
    /\ hist' = [hist EXCEPT !.uaf = @ \/ Freed(th[t].prev)]
    /\ UNCHANGED <<buckets, element_count>>
    /\ LFFrame

\* delete current;  Deleting a node a second time is undefined: the
\* allocator kills the process when it detects it, or goes on.
RemoveDelete(t) ==
    /\ ~crashed
    /\ th[t].pc = "rem_free"
    /\ \/ /\ nodes' = [nodes EXCEPT ![th[t].cur].st = "free"]
          /\ th' = [th EXCEPT ![t].pc = "rem_count"]
          /\ crashed' = crashed
       \/ /\ Freed(th[t].cur)
          /\ th' = [th EXCEPT ![t].pc = "crashed"]
          /\ crashed' = TRUE
          /\ UNCHANGED nodes
    /\ hist' = [hist EXCEPT !.uaf = @ \/ Freed(th[t].cur)]
    /\ UNCHANGED <<cfg, mode, segments, locks, ops, buckets, element_count, workload, matrix>>

\* element_count--; return true;
RemoveCount(t) ==
    /\ th[t].pc = "rem_count"
    /\ element_count' = element_count - 1
    /\ Return(t, TRUE, th[t].out)
    /\ hist' = Recorded(th[t], TRUE)
    /\ UNCHANGED <<buckets, nodes>>
    /\ LFFrame

(***************************************************************************)
(* Specifications.                                                         *)
(***************************************************************************)
LockStep(t) == Call(t) \/ omp_set_lock(t) \/ Scan(t) \/ Apply(t) \/ omp_unset_lock(t)

LFInsert(t) ==
    InsertLoadHead(t) \/ InsertWalk(t) \/ InsertLink(t) \/ InsertCas(t) \/ InsertCount(t)

LFSearch(t) == SearchLoadHead(t) \/ SearchWalk(t)

LFRemove(t) ==
    \/ RemoveLoadHead(t) \/ RemoveWalk(t) \/ RemoveLoadNext(t) \/ RemoveCas(t)
    \/ RemoveStore(t) \/ RemoveDelete(t) \/ RemoveCount(t)

\* One thread, every table, any method.
InitSeq == InitWith(Variants, "seq")
NextSeq == \E t \in Threads : LockStep(t) \/ LFInsert(t) \/ LFSearch(t) \/ LFRemove(t)
SpecSeq == InitSeq /\ [][NextSeq]_vars

\* Several threads, the lock-based tables, any method.
InitLock == InitWith(LockVariants, "mixed")
NextLock == \E t \in Threads : LockStep(t)
SpecLock == InitLock /\ [][NextLock]_vars

\* Several threads, the lock-free table, any method.
InitLF == InitWith({"LockFree"}, "mixed")
NextLF == \E t \in Threads : Call(t) \/ LFInsert(t) \/ LFSearch(t) \/ LFRemove(t)
SpecLF == InitLF /\ [][NextLF]_vars

\* The lock-free table is filled by one thread, then several threads remove.
InitLFRem == InitWith({"LockFree"}, "fill")
NextLFRem == \E t \in Threads : Call(t) \/ LFInsert(t) \/ LFRemove(t)
SpecLFRem == InitLFRem /\ [][NextLFRem]_vars

\* The same under fair scheduling: a thread inside a method keeps taking
\* steps, and an exchange that is tried again and again with the expected
\* head in place does not fail spuriously for ever.
LFStep(t) == LFInsert(t) \/ LFSearch(t) \/ LFRemove(t)
InsertCasSucceeds(t) == InsertCas(t) /\ th'[t].pc = "ins_count"
RemoveCasSucceeds(t) == RemoveCas(t) /\ th'[t].pc = "rem_free"
LFFairness ==
    \A t \in Threads :
        /\ WF_vars(LFStep(t))
        /\ SF_vars(InsertCasSucceeds(t))
        /\ SF_vars(RemoveCasSucceeds(t))
SpecLFRemFair == SpecLFRem /\ LFFairness

\* The lock-free table with two buckets: one bucket is filled by one thread,
\* then several threads empty it and insert into the other bucket.
InitLFReuse == InitWith({"LockFree"}, "reuse") /\ cfg.bucket_count = 2
NextLFReuse == \E t \in Threads : Call(t) \/ LFInsert(t) \/ LFRemove(t)
SpecLFReuse == InitLFReuse /\ [][NextLFReuse]_vars

\* Several threads, the lock-free table with one bucket, inserts and removes.
InitLFChurn == InitWith({"LockFree"}, "churn") /\ cfg.bucket_count = 1
NextLFChurn == \E t \in Threads : Call(t) \/ LFInsert(t) \/ LFRemove(t)
SpecLFChurn == InitLFChurn /\ [][NextLFChurn]_vars

\* Several threads, the lock-free table with one bucket, inserts and searches.
InitLFRead == InitWith({"LockFree"}, "readers") /\ cfg.bucket_count = 1
NextLFRead == \E t \in Threads : Call(t) \/ LFInsert(t) \/ LFSearch(t)
SpecLFRead == InitLFRead /\ [][NextLFRead]_vars

\* Several threads, the tables with one guard per table, bucket or segment.
GuardVariants == {"Coarse", "CoarsePadded", "Fine", "FinePadded", "Segment", "SegmentPadded"}
InitGuard == InitWith(GuardVariants, "few")
NextGuard == \E t \in Threads : LockStep(t)
SpecGuard == InitGuard /\ [][NextGuard]_vars

\* The lock-free table is filled by several threads, then one thread removes.
InitLFDrain == InitWith({"LockFree"}, "drain")
NextLFDrain == \E t \in Threads : Call(t) \/ LFInsert(t) \/ LFRemove(t)
SpecLFDrain == InitLFDrain /\ [][NextLFDrain]_vars

\* Several threads, the AGH table, any method.
InitAGH == InitWith({"AGH"}, "few")
NextAGH == \E t \in Threads : LockStep(t)
SpecAGH == InitAGH /\ [][NextAGH]_vars

\* Several threads, the lock-free table with one bucket, inserts only.
InitLFIns == InitWith({"LockFree"}, "insonly") /\ cfg.bucket_count = 1
NextLFIns == \E t \in Threads : Call(t) \/ LFInsert(t)
SpecLFIns == InitLFIns /\ [][NextLFIns]_vars

\* The concurrent test on every concurrent table.
UnitVariants == {"Fine", "FinePadded", "Segment", "SegmentPadded", "AGH"}
InitUnits == InitWith(UnitVariants, "once")
NextUnits == \E t \in Threads : LockStep(t)
SpecUnits == InitUnits /\ [][NextUnits]_vars

InitDisjoint == InitWith(Variants \ {"Sequential"}, "disjoint")
NextDisjoint == \E t \in Threads : LockStep(t) \/ LFInsert(t) \/ LFSearch(t)
SpecDisjoint == InitDisjoint /\ [][NextDisjoint]_vars

(***************************************************************************)
(* Properties of the lock-based tables (SpecLock).                         *)
(***************************************************************************)
RECURSIVE SumOver(_, _)
SumOver(f, S) ==
    IF S = {} THEN 0
    ELSE LET x == CHOOSE y \in S : TRUE IN f[x] + SumOver(f, S \ {x})

Stored == SumOver([b \in DOMAIN buckets |-> Len(buckets[b])], DOMAIN buckets)

NoDuplicateKey(l) == \A i, j \in 1..Len(l) : l[i].key = l[j].key => i = j

SameBucketInLock(t1, t2) ==
    /\ t1 # t2
    /\ InLock(t1)
    /\ InLock(t2)
    /\ BucketOf(th[t1].key) = BucketOf(th[t2].key)

\* C3: in the lock-based tables no bucket ever holds two entries with the
\* same key, and of the inserts of a key that is absent exactly one returns
\* true: the inserts (and increments) of a key that returned true never
\* outnumber the removes of it that returned true by more than one.
C3_UniqueKeyPerBucket ==
    cfg.variant \in LockVariants =>
        /\ \A b \in DOMAIN buckets : NoDuplicateKey(buckets[b])
        /\ \A k \in Keys : hist.net[k] \in {0, 1}

\* C4: in the lock-based tables, whenever no thread is inside a method,
\* size() is the number of entries stored in all buckets, and the counter
\* moved once up per insert that returned true and once down per remove that
\* returned true.
C4_SizeIsNumberOfEntries ==
    cfg.variant \in LockVariants =>
        /\ element_count = SumOver(hist.net, Keys)
        /\ Quiescent => element_count = Stored

\* C5: in the lock-striped table with 1 <= M <= B every bucket has one
\* stripe, so no two threads are inside the locked section on the same
\* bucket at the same time.
C5_StripedBucketHasOneStripe ==
    cfg.variant = "Striped" /\ 1 <= num_locks_ /\ num_locks_ <= cfg.bucket_count =>
        \A t1, t2 \in Threads : ~SameBucketInLock(t1, t2)

\* C6: in the AGH table the stripes of the segments in use are those chosen
\* by the constructor, a bucket's stripe is bucket_idx AND (K - 1) (0 when K = 1),
\* a thread inside the locked section of a method holds exactly the lock of
\* its bucket's stripe, and no two threads are inside the locked section on
\* the same bucket at the same time.
C6_AGHBucketHasOneStripe ==
    cfg.variant = "AGH" =>
        /\ DOMAIN segments = 0..(AGH_NUM_SEGMENTS - 1)
        /\ \A k \in Keys :
              segments[seg_index(Hash(k))] =
                  AGHSegment(seg_index(Hash(k)), cfg.bucket_count, cfg.expected_threads)
        /\ \A t \in Threads : InLock(t) =>
              LET b == BucketOf(th[t].key)
                  K == segments[b[1]].stripe_count
              IN  /\ K \in {1, 2, 4, 8, 16, 32}
                  /\ locks[<<b[1], IF K = 1 THEN 0 ELSE b[2] % K>>] = t
        /\ \A t1, t2 \in Threads : ~SameBucketInLock(t1, t2)

\* Two threads are in methods on different keys of one bucket of an AGH
\* table: one is inside the locked section, the other waits for the stripe.
C6_Witness ==
    /\ cfg.variant = "AGH"
    /\ \E t1, t2 \in Threads :
          /\ InLock(t1)
          /\ th[t2].pc = "acquire"
          /\ th[t1].key # th[t2].key
          /\ BucketOf(th[t1].key) = BucketOf(th[t2].key)
          /\ segments[seg_index(Hash(th[t1].key))].stripe_count > 1

\* C7: in the lock-based tables every method returns what it returns when
\* the methods on its key run one at a time in the order in which they held
\* the key's guard; a search returns the value of the last insert before it.
C7_PerKeyLinearizable ==
    cfg.variant \in LockVariants =>
        \A t \in Threads : th[t].pc \in {"release", "done"} =>
            /\ th[t].res = th[t].exp.res
            /\ th[t].op = "search" /\ th[t].res => th[t].out = th[t].exp.out

(***************************************************************************)
(* What a table holds: the list of a bucket, or the chain of nodes that    *)
(* the next pointers form from a bucket's head.                            *)
(***************************************************************************)
RECURSIVE Chain(_, _)
Chain(a, n) ==
    IF a = nullptr \/ n = 0 THEN <<>> ELSE <<a>> \o Chain(nodes[a].next, n - 1)

ChainOf(b) == Chain(buckets[b], MaxNodes)

Contents(b) ==
    IF cfg.variant = "LockFree"
    THEN [i \in 1..Len(ChainOf(b)) |->
             KeyValue(nodes[ChainOf(b)[i]].key, nodes[ChainOf(b)[i]].value)]
    ELSE buckets[b]

\* The values stored under key k, in the order of the bucket.
Entries(k) ==
    IF Crashes(k) THEN <<>>
    ELSE LET l == SelectSeq(Contents(BucketOf(k)), LAMBDA e : e.key = k)
         IN  [i \in 1..Len(l) |-> l[i].value]

Reachable == UNION {{ChainOf(b)[i] : i \in 1..Len(ChainOf(b))} : b \in DOMAIN buckets}

(***************************************************************************)
(* Properties of every table run by one thread (SpecSeq).                  *)
(***************************************************************************)
\* C1: in every table, run by one caller, no call kills the process; an
\* insert returns true exactly when its key was absent and leaves exactly
\* one entry for the key, holding the inserted value; a search that follows
\* an insert of its key returns true and that insert's value; between calls
\* the table holds exactly what the calls made so far have put into it.
C1_InsertStoresOrOverwrites ==
    mode = "seq" =>
        /\ ~crashed
        /\ th[1].pc = "done" /\ th[1].op = "insert" =>
              /\ th[1].res = th[1].exp.res
              /\ Entries(th[1].key) = <<th[1].val>>
        /\ ( /\ th[1].pc = "done"
             /\ th[1].op = "search"
             /\ th[1].before.op = "insert"
             /\ th[1].before.key = th[1].key ) =>
              /\ th[1].res
              /\ th[1].out = th[1].before.val
        /\ th[1].pc \in {"idle", "done"} =>
              \A k \in Keys : ~Crashes(k) =>
                  Entries(k) = IF hist.abs[k] = 0 THEN <<>> ELSE <<hist.abs[k]>>

(***************************************************************************)
(* Properties of the concurrent test (SpecDisjoint).                       *)
(***************************************************************************)
\* C2: in every concurrent table, when the threads insert disjoint keys, no
\* call kills the process; once every key has been inserted and every
\* thread has returned, size() is the number of keys and each key is stored
\* once with the value it was inserted with; every search made then returns
\* true and that value.
C2_DisjointInsertsLossless ==
    mode = "disjoint" =>
        /\ ~crashed
        /\ hist.called = Keys /\ Quiescent =>
              /\ element_count = Cardinality(Keys)
              /\ \A k \in Keys : Entries(k) = <<k * 10>>
        /\ \A t \in Threads : th[t].pc = "done" /\ th[t].op = "search" =>
              /\ th[t].res
              /\ th[t].out = th[t].key * 10

(***************************************************************************)
(* Properties of the lock-free table.                                      *)
(***************************************************************************)
\* C8: in the lock-free table with inserts only, at most one insert of a key
\* returns true and the chain never holds two nodes of a key; an insert that
\* is about to publish its node has walked the whole chain behind the head it
\* expects (after a failed exchange it walks again); an insert that returned
\* leaves exactly one node of its key; when every insert has returned, a key
\* has a node exactly when one insert of it returned true, and size() is the
\* number of nodes.
C8_OneInsertWins ==
    mode = "insonly" =>
        /\ \A k \in Keys : hist.net[k] <= 1 /\ Len(Entries(k)) <= 1
        /\ \A t \in Threads : th[t].pc \in {"ins_link", "ins_cas"} =>
              \A i \in 1..Len(Chain(th[t].head, MaxNodes)) :
                  nodes[Chain(th[t].head, MaxNodes)[i]].key # th[t].key
        /\ \A t \in Threads : th[t].pc = "done" =>
              /\ Len(Entries(th[t].key)) = 1
              /\ th[t].res => hist.net[th[t].key] = 1
        /\ Quiescent =>
              /\ \A k \in Keys : hist.net[k] = Len(Entries(k))
              /\ element_count = Cardinality(Reachable)
              /\ element_count = SumOver(hist.net, Keys)

\* Two threads inserted the same absent key at the same time: one returned
\* true, the other lost the exchange of the head, walked again and returned
\* false; size() is 1.
C8_Witness ==
    /\ mode = "insonly"
    /\ ops = 2
    /\ element_count = 1
    /\ \E t1, t2 \in Threads :
          /\ t1 # t2
          /\ th[t1].pc = "done" /\ th[t2].pc = "done"
          /\ th[t1].key = th[t2].key
          /\ th[t1].res /\ ~th[t2].res
          /\ th[t2].retried

\* C9: in the lock-free table every node reachable from a bucket's head is a
\* published node that has not been deleted, and once the removes of a key
\* that returned true are as many as the inserts of it that returned true,
\* no node of the key is left.
C9_FreedNodeNeverReachable ==
    cfg.variant = "LockFree" =>
        /\ \A a \in Reachable : nodes[a].st = "linked"
        /\ Quiescent => \A k \in Keys : hist.net[k] <= 0 => Entries(k) = <<>>

\* C10: in the lock-free table, whenever no thread is inside a method,
\* size() is the number of nodes reachable from the heads, size() is the
\* number of inserts that returned true less the number of removes that
\* returned true, and for no key the removes that returned true outnumber
\* the inserts that returned true (of two removes of one present key only
\* one returns true).
C10_LockFreeSizeIsReachableNodes ==
    cfg.variant = "LockFree" /\ Quiescent =>
        /\ element_count = Cardinality(Reachable)
        /\ element_count = SumOver(hist.net, Keys)
        /\ \A k \in Keys : hist.net[k] \in {0, 1}

\* C11: in the lock-free table under concurrent inserts and removes no
\* bucket's chain ever holds two nodes with the same key.
C11_LockFreeUniqueKeyPerChain ==
    cfg.variant = "LockFree" =>
        \A b \in DOMAIN buckets :
            \A i, j \in 1..Len(ChainOf(b)) :
                nodes[ChainOf(b)[i]].key = nodes[ChainOf(b)[j]].key
                    => ChainOf(b)[i] = ChainOf(b)[j]

\* C12: in the lock-free table with inserts and searches only, no thread
\* reads or writes a deleted node, the pointer a thread is about to follow is
\* null or a published node, and every node reachable from a head is a
\* published node whose next pointer is null or a published node.
C12_InsertSearchMemorySafe ==
    mode = "readers" =>
        /\ ~hist.uaf
        /\ \A t \in Threads : th[t].pc \in {"ins_walk", "sea_walk"} =>
              th[t].cur = nullptr \/ nodes[th[t].cur].st = "linked"
        /\ \A a \in Reachable :
              /\ nodes[a].st = "linked"
              /\ nodes[a].next = nullptr \/ nodes[nodes[a].next].st = "linked"

\* A search is walking a chain while a node deleted by an insert that found
\* its key lies in the heap.
C12_Witness ==
    /\ mode = "readers"
    /\ \E a \in Addrs : nodes[a].st = "free"
    /\ \E t \in Threads : th[t].pc = "sea_walk" /\ th[t].cur # nullptr

\* C18: in the lock-free table with inserts and searches only, a search of a
\* key that was entered after an insert of the key had returned returns
\* found, with a value that an insert wrote.
C18_ReturnedInsertIsVisible ==
    mode = "readers" =>
        \A t \in Threads :
            th[t].pc = "done" /\ th[t].op = "search" /\ th[t].known =>
                /\ th[t].res
                /\ th[t].out \in Vals

\* A search entered after insert(k) had returned has found k behind the node
\* of another key, which an insert still in flight has published on top.
C18_Witness ==
    /\ mode = "readers"
    /\ \E t1, t2 \in Threads :
          /\ th[t1].pc = "done" /\ th[t1].op = "search" /\ th[t1].known /\ th[t1].res
          /\ th[t2].pc = "ins_count"
          /\ th[t2].key # th[t1].key
          /\ buckets[BucketOf(th[t1].key)] = th[t2].node

(***************************************************************************)
(* Properties of the tables with one guard per table, bucket or segment    *)
(* (SpecGuard).                                                            *)
(***************************************************************************)
\* C13: in the fine-grained tables increment returns true exactly when its
\* key is absent; the value stored under a key is the sum of the deltas of
\* the increments applied since it was absent (the map kept by applying the
\* calls one at a time in the order of their locked sections); a key has at
\* most one entry, at most one increment of an absent key returns true, and
\* size() is the number of entries.
C13_IncrementIsAtomic ==
    cfg.variant \in {"Fine", "FinePadded"} =>
        /\ \A k \in Keys :
              /\ Entries(k) = IF hist.abs[k] = 0 THEN <<>> ELSE <<hist.abs[k]>>
              /\ hist.net[k] \in {0, 1}
        /\ \A t \in Threads :
              th[t].pc \in {"release", "done"} /\ th[t].op = "increment" =>
                  th[t].res = th[t].exp.res
        /\ element_count = SumOver(hist.net, Keys)
        /\ element_count = Stored

\* Two threads have incremented the same absent key at the same time: one
\* returned true, the other false, the stored value is the sum of the two
\* deltas and size() is 1.
C13_Witness ==
    /\ cfg.variant \in {"Fine", "FinePadded"}
    /\ ops = 2
    /\ element_count = 1
    /\ \E t1, t2 \in Threads :
          /\ t1 # t2
          /\ th[t1].pc = "done" /\ th[t2].pc = "done"
          /\ th[t1].op = "increment" /\ th[t2].op = "increment"
          /\ th[t1].key = th[t2].key
          /\ th[t1].res /\ ~th[t2].res
          /\ Entries(th[t1].key) = <<th[t1].val + th[t2].val>>

\* C20: in the Coarse, Fine and Segment tables and their padded forms no
\* two threads are between omp_set_lock and omp_unset_lock of methods (search
\* included) on the same bucket; in Coarse no two threads are there at all,
\* in Segment no two threads are there on the same segment; a thread that is
\* there holds its guard.
C20_OneThreadPerGuard ==
    cfg.variant \in GuardVariants =>
        /\ \A t \in Threads : InLock(t) => locks[LockOf(th[t].key)] = t
        /\ \A t1, t2 \in Threads : t1 # t2 /\ InLock(t1) /\ InLock(t2) =>
              /\ BucketOf(th[t1].key) # BucketOf(th[t2].key)
              /\ cfg.variant \notin {"Coarse", "CoarsePadded"}
              /\ cfg.variant \in {"Segment", "SegmentPadded"} =>
                    Hash(th[t1].key) % SEG_NUM_SEGMENTS # Hash(th[t2].key) % SEG_NUM_SEGMENTS

\* In a Segment table a search is inside the locked section while a method
\* on another bucket of the same segment waits for the segment's lock.
C20_Witness ==
    /\ cfg.variant \in {"Segment", "SegmentPadded"}
    /\ \E t1, t2 \in Threads :
          /\ InLock(t1) /\ th[t1].op = "search"
          /\ th[t2].pc = "acquire"
          /\ BucketOf(th[t1].key) # BucketOf(th[t2].key)
          /\ LockOf(th[t1].key) = LockOf(th[t2].key)

(***************************************************************************)
(* More properties of every table run by one thread (SpecSeq).             *)
(***************************************************************************)
Present == {k \in Keys : hist.abs[k] # 0}

\* The table holds, under the keys whose buckets exist, what the calls made
\* so far have put into it.
TableIsMap ==
    \A k \in Keys : ~Crashes(k) =>
        Entries(k) = IF hist.abs[k] = 0 THEN <<>> ELSE <<hist.abs[k]>>

\* The call before the current one of the single caller.
Before(o, k) == th[1].before.op = o /\ th[1].before.key = k

\* C14: in every table, starting empty, no call kills the process; the first
\* call insert(k, v) returns true; search(k) right after it returns true and
\* v; remove(k) after that insert (right after it or after the search)
\* returns true and leaves no entry and size() = 0; search(k) right after a
\* remove(k) returns not-found.
C14_InsertRemoveRoundTrip ==
    mode = "seq" =>
        /\ ~crashed
        /\ th[1].pc = "done" =>
              LET k == th[1].key IN
              /\ ops = 1 /\ th[1].op = "insert" =>
                    th[1].res /\ Entries(k) = <<th[1].val>> /\ element_count = 1
              /\ ops = 2 /\ th[1].op = "search" /\ Before("insert", k) =>
                    th[1].res /\ th[1].out = th[1].before.val
              /\ ( /\ th[1].op = "remove"
                   /\ \/ ops = 2 /\ Before("insert", k)
                      \/ ops = 3 /\ Before("search", k) /\ th[1].exp.res ) =>
                    th[1].res /\ Entries(k) = <<>> /\ element_count = 0
              /\ th[1].op = "search" /\ Before("remove", k) => ~th[1].res

\* C15: in every table run by one caller no call kills the process, and
\* between calls size() is the number of keys inserted and not removed since
\* and the number of entries stored.
C15_SizeConservation ==
    mode = "seq" =>
        /\ ~crashed
        /\ th[1].pc \in {"idle", "done"} =>
              /\ element_count = Cardinality(Present)
              /\ TableIsMap

\* C17: in every table run by one caller, a remove of a key that is not
\* present does not kill the process, returns false and leaves size() and
\* what is stored under every key as they were.
C17_RemoveOfAbsentKey ==
    mode = "seq" =>
        /\ th[1].op = "remove" => th[1].pc # "crashed"
        /\ th[1].pc = "done" /\ th[1].op = "remove" /\ ~th[1].exp.res =>
              /\ ~th[1].res
              /\ element_count = Cardinality(Present)
              /\ TableIsMap

\* C16: in the lock-free table, once the concurrent inserts of disjoint keys
\* have all returned, every key has been inserted with result true; between
\* the removes of the single remover a key is stored, once and with its
\* value, exactly when it has not been removed with result true; a remove
\* that returned leaves its key removed with result true once; size() is the
\* number of keys not removed and the number of reachable nodes, all of
\* which are published and not deleted.
C16_SingleThreadRemoves ==
    mode = "drain" /\ hist.called = Keys /\ Quiescent =>
        /\ ops = Cardinality(Keys) => \A k \in Keys : hist.net[k] = 1
        /\ \A k \in Keys :
              /\ hist.net[k] \in {0, 1}
              /\ Entries(k) = IF hist.net[k] = 1 THEN <<k * 10>> ELSE <<>>
        /\ th[1].op = "remove" => hist.net[th[1].key] = 0
        /\ element_count = SumOver(hist.net, Keys)
        /\ element_count = Cardinality(Reachable)
        /\ \A a \in Reachable : nodes[a].st = "linked"

\* After one remove returned true, the single remover has unlinked a
\* mid-chain node and is about to delete it.
C16_Witness ==
    /\ mode = "drain"
    /\ ops = Cardinality(Keys) + 2
    /\ element_count = Cardinality(Keys) - 1
    /\ th[1].pc = "rem_free"
    /\ th[1].prev # nullptr

(***************************************************************************)
(* Progress of the lock-free table (SpecLFRemFair).                        *)
(***************************************************************************)
InMethod(t) == th[t].pc \notin {"idle", "done"}

\* A thread inside a method of a running process has a step of its own to
\* take, whatever the other threads do.
NeverWaits ==
    \A t \in Threads : InMethod(t) /\ ~crashed => ENABLED LFStep(t)

\* A thread goes from its exchange back to the start of its loop only when
\* the head is not the one it expects.
RetriesOnlyAfterLostExchange ==
    \A t \in Threads :
        th[t].pc \in {"ins_cas", "rem_cas"} /\ th'[t].pc \in {"ins_load", "rem_load"} =>
            buckets[BucketOf(th[t].key)] # th[t].head

\* Every method that is entered returns.
EveryCallReturns ==
    \A t \in Threads : InMethod(t) ~> Returned(t)

\* C19: in the lock-free table no thread inside a method waits for another
\* thread, an insert or a remove of a head repeats its loop only after its
\* exchange found another head than the expected one, and under fair
\* scheduling every insert and remove that is entered returns.
C19_LockFreeProgress ==
    /\ [](cfg.variant = "LockFree" => NeverWaits)
    /\ [][cfg.variant = "LockFree" => RetriesOnlyAfterLostExchange]_vars
    /\ EveryCallReturns

(***************************************************************************)
(* Guard units of the Fine, Segment and AGH tables (SpecUnits).            *)
(***************************************************************************)
\* The unit that serializes the methods on a key: the key's bucket (Fine),
\* its segment (Segment), or its segment and the stripe of its bucket (AGH).
GuardUnit(k) ==
    LET h == Hash(k) IN
    CASE cfg.variant \in {"Fine", "FinePadded"}       -> FlatBucket(h)
      [] cfg.variant \in {"Segment", "SegmentPadded"} -> <<h % SEG_NUM_SEGMENTS>>
      [] cfg.variant = "AGH" ->
            LET s == segments[seg_index(h)]
            IN  <<seg_index(h), AGHStripe(s, bucket_index(h, s.buckets_per_segment))>>

Held(t) == {l \in DOMAIN locks : locks[l] = t}

\* C21: in the Fine, Segment and AGH tables a thread holds one lock while it
\* is between omp_set_lock and omp_unset_lock and none otherwise, and in a
\* running process a thread that is about to call omp_set_lock is not kept
\* out as long as every thread inside a locked section is there for a key
\* of another bucket (Fine), segment (Segment) or segment and stripe (AGH).
C21_DistinctUnitsIndependent ==
    cfg.variant \in UnitVariants =>
        /\ \A t \in Threads : Cardinality(Held(t)) = IF InLock(t) THEN 1 ELSE 0
        /\ \A t \in Threads :
              ( /\ ~crashed
                /\ th[t].pc = "acquire"
                /\ \A u \in Threads \ {t} :
                      InLock(u) => GuardUnit(th[u].key) # GuardUnit(th[t].key) ) =>
                    ENABLED omp_set_lock(t)

\* Two threads are inside the locked sections of methods on two buckets of
\* one segment of an AGH table, each holding the stripe of its bucket.
C21_Witness ==
    /\ cfg.variant = "AGH"
    /\ \E t1, t2 \in Threads :
          /\ t1 # t2
          /\ InLock(t1) /\ InLock(t2)
          /\ seg_index(Hash(th[t1].key)) = seg_index(Hash(th[t2].key))
          /\ LockOf(th[t1].key) # LockOf(th[t2].key)

(***************************************************************************)
(* Index computations of every table (SpecSeq).                            *)
(***************************************************************************)
\* The index computed for a key is one of the buckets the constructor built.
ExistingBucket(k) ==
    LET h == Hash(k) IN
    CASE cfg.variant = "AGH" ->
            LET bps == segments[seg_index(h)].buckets_per_segment
            IN  bps > 0 /\ bucket_index(h, bps) < bps
      [] cfg.variant \in {"Segment", "SegmentPadded"} ->
            BucketOf(k)[1] < SEG_NUM_SEGMENTS /\ BucketOf(k)[2] < SegBps
      [] OTHER ->
            BucketOf(k)[2] < cfg.bucket_count

\* C22: in every table built with a positive bucket hint no segment has zero
\* buckets, the index computed for every key is one of the buckets that were
\* built, and no call divides by zero.
C22_IndexSelectsExistingBucket ==
    cfg.bucket_count > 0 =>
        /\ \A i \in DOMAIN segments : segments[i].buckets_per_segment > 0
        /\ \A k \in Keys : ExistingBucket(k)
        /\ ~crashed

(***************************************************************************)
(* The random generators of the benchmarks.  std::mt19937 is a function of *)
(* its seed and of the number of words drawn from it; the model keeps      *)
(* that, the seed modulo SeedModulus, and takes the word drawn, scaled to  *)
(* 0..99, from a small mixing function.  A uniform_real_distribution on    *)
(* [0, 1) draws two words and yields (in hundredths) 0..99; a              *)
(* uniform_int_distribution on [a, b] draws one word and yields a value of *)
(* a..b.                                                                   *)
(***************************************************************************)
SeedModulus == 1009

mt19937(seed) == [seed |-> seed % SeedModulus, n |-> 0]

Word(g) == (g.seed * 37 + g.n * 61 + 11) % 100

Advance(g, k) == [g EXCEPT !.n = @ + k]

uniform_real_distribution(g) == Word(g)

uniform_int_distribution(d, g) == d[1] + (Word(g) % (d[2] - d[1] + 1))

Max(a, b) == IF a > b THEN a ELSE b

Min(a, b) == IF a < b THEN a ELSE b

\* HotsetGen of bench_matrix.cpp and bench_matrix_simple.cpp.
HotsetGenOfMatrix(u, h, p, seed) ==
    [universe |-> u, hotN |-> Max(1, h), p_hot |-> p, gen |-> mt19937(seed),
     hotD |-> <<0, Max(0, h - 1)>>, coldD |-> <<Min(h, u - 1), Max(0, u - 1)>>]

\* A generator whose cold range ends at universe.
HotsetGenWideCold(universe, hotN, p_hot, seed) ==
    [universe |-> universe, hotN |-> hotN, p_hot |-> p_hot, gen |-> mt19937(seed),
     hotD |-> <<0, hotN - 1>>, coldD |-> <<hotN, universe>>]

\* HotsetGen of hotset.h.
HotsetGenOfHeader(universe, hotN, p_hot, seed) ==
    [universe |-> universe, hotN |-> hotN, p_hot |-> p_hot, gen |-> mt19937(seed),
     hotD |-> <<0, hotN - 1>>, coldD |-> <<hotN, universe - 1>>]

\* draw(): the coin and then one of the two distributions, all on gen.
draw(hg) ==
    LET g1  == Advance(hg.gen, 2)
        hot == uniform_real_distribution(hg.gen) < hg.p_hot
    IN  [value |-> IF hot
                   THEN uniform_int_distribution(hg.hotD, g1)
                   ELSE uniform_int_distribution(hg.coldD, g1),
         hot   |-> hot,
         hg    |-> [hg EXCEPT !.gen = Advance(g1, 1)]]

\* The unsigned int rng_state of benchmark.cpp, kept as its two 16-bit
\* halves <<high, low>>: 0x9e3779b9u + 1013904223u * tid, and
\* rng_state * 1664525u + 1013904223u, both modulo 2^32.
LcgSeed(tid) ==
    LET lo == 31161 + 62303 * tid
        hi == 40503 + 15470 * tid + lo \div 65536
    IN  <<hi % 65536, lo % 65536>>

LcgNext(s) ==
    LET lo == s[2] * 26125 + 62303
        hi == s[1] * 26125 + s[2] * 25 + 15470 + lo \div 65536
    IN  <<hi % 65536, lo % 65536>>

\* (int)((rng_state & 0xFFFFu) * 10000u / 65536u)
rand_val(s) == (s[2] * 10000) \div 65536

\* rng_state % m
LcgMod(s, m) == ((s[1] % m) * (65536 % m) + s[2]) % m

(***************************************************************************)
(* run_workload.  The tables and arguments are those of the mains: a table *)
(* of 16384 buckets, read ratios 0.8 and 0.5 (in hundredths), p_hot 0.7    *)
(* and 0.9, and, as the bound of the model, BenchOps operations.  The      *)
(* loops are divided among the threads as schedule(static) divides them:   *)
(* one block of consecutive iterations per thread.                         *)
(***************************************************************************)
BenchFiles == {"bench_matrix", "bench_matrix_simple", "benchmark"}

BenchConfigs(f) ==
    CASE f = "bench_matrix" ->
            {Config(v, 16384, 0, 0) : v \in {"Sequential", "Coarse", "Fine", "Segment"}}
            \cup {Config("Striped", 16384, 256, 0)}
      [] f = "bench_matrix_simple" ->
            {Config(v, 16384, 0, 0) :
                v \in {"Sequential", "Coarse", "Fine", "Segment", "LockFree"}}
      [] f = "benchmark" ->
            {Config(v, 16384, 0, 0) :
                v \in {"Sequential", "Coarse", "CoarsePadded", "Fine", "FinePadded",
                       "Segment", "SegmentPadded"}}

ChunkLo(tid, n, T) ==
    LET q == n \div T
        r == n % T
    IN  IF tid < r THEN (q + 1) * tid ELSE q * tid + r

ChunkHi(tid, n, T) ==
    LET q == n \div T
        r == n % T
    IN  ChunkLo(tid, n, T) + (IF tid < r THEN q + 1 ELSE q)

Workers == 1..workload.threads

\* The arguments with which the mains call run_workload.
BenchArguments(f) ==
    {[file |-> f, threads |-> T, total_ops |-> BenchOps, read_ratio |-> rr,
      skewed |-> sk, p_hot |-> ph] :
        T \in Threads, rr \in (IF f = "benchmark" THEN {80} ELSE {80, 50}),
        sk \in BOOLEAN, ph \in {0, 70, 90}}

Passed(f, a) ==
    CASE f = "bench_matrix"        -> a.p_hot # 0
      [] f = "bench_matrix_simple" -> a.p_hot = 0 <=> ~a.skewed
      [] f = "benchmark"           -> a.p_hot = 90

\* HT ht(bucket_count); int initial = total_ops/2, mixed = total_ops - initial;
\* and the start of the first loop.
run_workload(a) ==
    [file |-> a.file, threads |-> a.threads, total_ops |-> a.total_ops,
     read_ratio |-> a.read_ratio, skewed |-> a.skewed, p_hot |-> a.p_hot,
     initial |-> a.total_ops \div 2, mixed |-> a.total_ops - a.total_ops \div 2,
     phase |-> "prefill",
     next |-> [t \in Threads |-> ChunkLo(t - 1, a.total_ops \div 2, a.threads)],
     rng |-> <<>>, hot |-> <<>>, users |-> <<>>, writes |-> 0]

InitWorkload ==
    /\ \E f \in BenchFiles :
          /\ InitTable(BenchConfigs(f), "bench")
          /\ workload \in {run_workload(a) : a \in {x \in BenchArguments(f) : Passed(f, x)}}
    /\ cfg.variant = "Sequential" => workload.threads = 1
    /\ matrix = NoMatrix

LoopDone(n) ==
    \A t \in Workers :
        /\ workload.next[t] = ChunkHi(t - 1, n, workload.threads)
        /\ th[t].pc \in {"idle", "done"}

TableFrame == UNCHANGED <<cfg, mode, segments, buckets, locks, nodes, element_count,
                          crashed, th, ops, hist>>

\* for (int i=0;i<initial;++i) ht.insert(i, i*2);
Prefill(t) ==
    LET i == workload.next[t] IN
    /\ workload.phase = "prefill"
    /\ t \in Workers
    /\ i < ChunkHi(t - 1, workload.initial, workload.threads)
    /\ Enter(t, [op |-> "insert", key |-> i, val |-> i * 2])
    /\ workload' = [workload EXCEPT !.next[t] = i + 1]
    /\ UNCHANGED matrix

\* The generator of the hot set: one object made before the parallel region
\* (bench_matrix.cpp, bench_matrix_simple.cpp), or one made by each thread
\* inside it (benchmark.cpp).
HotOwner(t) == IF workload.file = "benchmark" THEN t ELSE 0

\* The end of the first loop with its barrier, and the start of the second:
\* the generators are made.
StartMixed ==
    LET n == workload.initial
        h == Max(1, n \div 10)
        matrixfile == workload.file # "benchmark"
    IN
    /\ workload.phase = "prefill"
    /\ LoopDone(n)
    /\ workload' = [workload EXCEPT
          !.phase = "mixed",
          !.next = [t \in Threads |-> ChunkLo(t - 1, workload.mixed, workload.threads)],
          !.rng = [t \in Workers |->
                      IF matrixfile THEN mt19937(12648430 + (t - 1)) ELSE LcgSeed(t - 1)],
          !.hot = [o \in {HotOwner(t) : t \in Workers} |->
                      IF matrixfile
                      THEN HotsetGenOfMatrix(n, h, workload.p_hot, 12345)
                      ELSE HotsetGenOfHeader(n, h, 90, LcgMod(LcgSeed(o - 1), SeedModulus))],
          !.users = [o \in {HotOwner(t) : t \in Workers} |-> {}]]
    /\ TableFrame
    /\ UNCHANGED matrix

\* The key a write inserts.
StaleKey(i) == i

FreshKey(i) == workload.initial + i

\* hot.draw() by thread t.  When another thread has drawn from the same
\* object in this region the two calls race on its state, and the draw
\* yields some value of the two ranges.
Drawn(t) ==
    LET o  == HotOwner(t)
        hg == workload.hot[o]
        d  == draw(hg)
    IN  IF workload.users[o] \ {t} = {}
        THEN {d}
        ELSE {[value |-> v, hot |-> v \in hg.hotD[1]..hg.hotD[2], hg |-> d.hg] :
                v \in (hg.hotD[1]..hg.hotD[2]) \cup (hg.coldD[1]..hg.coldD[2])}

\* One iteration of the second loop in bench_matrix.cpp and
\* bench_matrix_simple.cpp.
MixedOfMatrix(t) ==
    LET i == workload.next[t]
        is_read == uniform_real_distribution(workload.rng[t]) < workload.read_ratio
        o == HotOwner(t)
    IN
    /\ workload.phase = "mixed"
    /\ workload.file # "benchmark"
    /\ t \in Workers
    /\ i < ChunkHi(t - 1, workload.mixed, workload.threads)
    /\ IF workload.skewed
       THEN \E d \in Drawn(t) :
              /\ Enter(t, IF is_read
                          THEN [op |-> "search", key |-> d.value, val |-> 0]
                          ELSE [op |-> "insert", key |-> FreshKey(i), val |-> i])
              /\ workload' = [workload EXCEPT
                    !.next[t] = i + 1,
                    !.rng[t] = Advance(@, 2),
                    !.hot[o] = d.hg,
                    !.users[o] = @ \cup {t},
                    !.writes = @ + (IF is_read THEN 0 ELSE 1)]
       ELSE /\ Enter(t, IF is_read
                        THEN [op |-> "search", key |-> i % workload.initial, val |-> 0]
                        ELSE [op |-> "insert", key |-> FreshKey(i), val |-> i])
            /\ workload' = [workload EXCEPT
                  !.next[t] = i + 1,
                  !.rng[t] = Advance(@, 2),
                  !.writes = @ + (IF is_read THEN 0 ELSE 1)]
    /\ UNCHANGED matrix

\* One iteration of the second loop in benchmark.cpp.
MixedOfBenchmark(t) ==
    LET i == workload.next[t]
        rng_state == LcgNext(workload.rng[t])
        is_read == rand_val(rng_state) < workload.read_ratio * 100
        o == HotOwner(t)
    IN
    /\ workload.phase = "mixed"
    /\ workload.file = "benchmark"
    /\ t \in Workers
    /\ i < ChunkHi(t - 1, workload.mixed, workload.threads)
    /\ IF is_read /\ workload.skewed
       THEN \E d \in Drawn(t) :
              /\ Enter(t, [op |-> "search", key |-> d.value, val |-> 0])
              /\ workload' = [workload EXCEPT
                    !.next[t] = i + 1,
                    !.rng[t] = rng_state,
                    !.hot[o] = d.hg,
                    !.users[o] = @ \cup {t}]
       ELSE /\ Enter(t, IF is_read
                        THEN [op |-> "search",
                              key |-> LcgMod(rng_state, workload.initial), val |-> 0]
                        ELSE [op |-> "insert", key |-> FreshKey(i), val |-> i])
            /\ workload' = [workload EXCEPT
                  !.next[t] = i + 1,
                  !.rng[t] = rng_state,
                  !.writes = @ + (IF is_read THEN 0 ELSE 1)]
    /\ UNCHANGED matrix

\* The end of the parallel region: return omp_get_wtime() - t0.
EndMixed ==
    /\ workload.phase = "mixed"
    /\ LoopDone(workload.mixed)
    /\ workload' = [workload EXCEPT !.phase = "end"]
    /\ TableFrame
    /\ UNCHANGED matrix

TableStep(t) ==
    \/ omp_set_lock(t) \/ Scan(t) \/ Apply(t) \/ omp_unset_lock(t)
    \/ LFInsert(t) \/ LFSearch(t)

NextWorkload ==
    \/ \E t \in Threads : Prefill(t) \/ MixedOfMatrix(t) \/ MixedOfBenchmark(t) \/ TableStep(t)
    \/ StartMixed
    \/ EndMixed

SpecWorkload == InitWorkload /\ [][NextWorkload]_vars

(***************************************************************************)
(* Properties of run_workload (SpecWorkload).                              *)
(***************************************************************************)
\* C23: in run_workload size() never decreases; it is initial when the first
\* loop has ended and before the second has begun; and when the second loop
\* has ended it is initial plus the number of its iterations that wrote,
\* which is at most total_ops.
C23_WorkloadSize ==
    /\ [][mode = "bench" => element_count' >= element_count]_vars
    /\ [](mode = "bench" =>
            /\ ( /\ workload.phase = "mixed"
                 /\ \A t \in Workers :
                       workload.next[t] = ChunkLo(t - 1, workload.mixed, workload.threads) ) =>
                    element_count = workload.initial
            /\ workload.phase = "end" =>
                  /\ element_count = workload.initial + workload.writes
                  /\ element_count <= workload.total_ops)

\* A run of two threads on the lock-free table has ended with a write.
C23_Witness ==
    /\ mode = "bench"
    /\ workload.phase = "end"
    /\ workload.threads > 1
    /\ workload.writes > 0
    /\ cfg.variant = "LockFree"

\* C24: in the second loop of run_workload every worker has a generator of
\* its own for the coin, and no generator of the hot set is drawn from by two
\* threads.
C24_GeneratorsArePrivate ==
    mode = "bench" /\ workload.phase \in {"mixed", "end"} =>
        /\ DOMAIN workload.rng = Workers
        /\ \A o \in DOMAIN workload.users : Cardinality(workload.users[o]) <= 1

(***************************************************************************)
(* The generator of the hot set on its own (SpecHotset): a generator is    *)
(* made with 0 < H < U, by either constructor, and drawn from.             *)
(***************************************************************************)
HotsetSeeds == {12345} \cup {LcgMod(LcgSeed(tid), SeedModulus) : tid \in 0..(NThreads - 1)}

HotsetGens ==
    {HotsetGenOfHeader(U, H, p, s) : U \in 2..MaxUniverse, H \in 1..(MaxUniverse - 1),
                                     p \in {0, 70, 90, 99}, s \in HotsetSeeds}
    \cup {HotsetGenOfMatrix(U, H, p, s) : U \in 2..MaxUniverse, H \in 1..(MaxUniverse - 1),
                                          p \in {0, 70, 90, 99}, s \in HotsetSeeds}

InitHotset ==
    /\ InitTable({Config("Sequential", 16384, 0, 0)}, "hotset")
    /\ workload \in {[phase |-> "hotset", hg |-> g, draws |-> 0, value |-> 0, hot |-> FALSE] :
                        g \in {x \in HotsetGens : x.hotN < x.universe}}
    /\ matrix = NoMatrix

HotsetDraw ==
    LET d == draw(workload.hg) IN
    /\ workload.phase = "hotset"
    /\ workload.draws < MaxDraws
    /\ workload' = [workload EXCEPT !.hg = d.hg, !.draws = @ + 1,
                                    !.value = d.value, !.hot = d.hot]
    /\ TableFrame
    /\ UNCHANGED matrix

NextHotset == HotsetDraw

SpecHotset == InitHotset /\ [][NextHotset]_vars

\* C25: a generator made with 0 < H < U draws a value of 0..U-1: one of
\* 0..H-1 when the coin fell on the hot side and one of H..U-1 otherwise.
C25_DrawInRange ==
    mode = "hotset" /\ workload.draws > 0 =>
        LET H == workload.hg.hotN
            U == workload.hg.universe
        IN  /\ 0 < H /\ H < U
            /\ workload.value >= 0 /\ workload.value < U
            /\ workload.hot => workload.value < H
            /\ ~workload.hot => workload.value >= H

\* A cold draw has yielded the last index of the universe, after a hot draw
\* or with a hot range of more than one index.
C25_Witness ==
    /\ mode = "hotset"
    /\ workload.draws = MaxDraws
    /\ ~workload.hot
    /\ workload.value = workload.hg.universe - 1
    /\ workload.hg.hotN > 1

(***************************************************************************)
(* The mains of bench_matrix_simple.cpp and bench_matrix.cpp: the sweep,   *)
(* the cache of sequential baselines, the rows and the CSV block.  The     *)
(* vectors of the sweep are those of the source; the numbers of operations *)
(* (2'000'000 and 250'000 per thread) are scaled down to BenchOps and half *)
(* of it.  run_workload is the call as a whole: it returns the time it     *)
(* measured, and a call with one thread leaves the decisions of its second *)
(* loop, which are a function of its arguments.  A measured time is kept   *)
(* as the measurement it comes from, a quotient of two numbers as the two  *)
(* numbers, a number printed with std::fixed as the number and the         *)
(* precision.  matrix holds one record per execution of the program; the   *)
(* executions take their steps together.                                   *)
(***************************************************************************)
threads_vec == <<1, 2, 4, 8, 16>>

strong_ops == BenchOps

weak_ops_per_thread == BenchOps \div 2

mixes == <<80, 50>>

p_hots == <<70, 90, 99>>

buckets_vec(file) ==
    IF file = "bench_matrix" THEN <<8192, 16384, 65536>>
    ELSE <<16384, 65536, 262144, 1048576>>

RECURSIVE Flatten(_)
Flatten(ss) == IF ss = <<>> THEN <<>> ELSE Head(ss) \o Flatten(Tail(ss))

\* The datapoints of sweep(mode) of run_matrix_for_impl, in the order of its
\* loops.
UniformPoints(md, mix, bucket_count) ==
    [ti \in 1..Len(threads_vec) |->
        [mode |-> md, mix |-> mix, buckets |-> bucket_count, dist |-> "uniform",
         p_hot |-> 0, T |-> threads_vec[ti]]]

SkewPoints(md, mix, bucket_count) ==
    Flatten([pi \in 1..Len(p_hots) |->
        [ti \in 1..Len(threads_vec) |->
            [mode |-> md, mix |-> mix, buckets |-> bucket_count, dist |-> "skew",
             p_hot |-> p_hots[pi], T |-> threads_vec[ti]]]])

sweep(md) ==
    Flatten([mi \in 1..Len(mixes) |->
        Flatten([bi \in 1..Len(buckets_vec("bench_matrix_simple")) |->
            UniformPoints(md, mixes[mi], buckets_vec("bench_matrix_simple")[bi])
            \o SkewPoints(md, mixes[mi], buckets_vec("bench_matrix_simple")[bi])])])

run_matrix_for_impl == sweep("strong") \o sweep("weak")

\* The datapoints of one call of sweep_impl, and of the calls main makes.
sweep_impl(name, strong_scaling) ==
    Flatten([mi \in 1..Len(mixes) |->
        Flatten([bi \in 1..Len(buckets_vec("bench_matrix")) |->
            Flatten([pi \in 1..Len(p_hots) |->
                Flatten([ti \in 1..Len(threads_vec) |->
                    [skew \in 1..2 |->
                        [impl |-> name,
                         mode |-> IF strong_scaling THEN "strong" ELSE "weak",
                         mix |-> mixes[mi], buckets |-> buckets_vec("bench_matrix")[bi],
                         dist |-> IF skew = 2 THEN "skew" ELSE "uniform",
                         p_hot |-> p_hots[pi], T |-> threads_vec[ti]]]])])])])

SweptTables == <<"Coarse", "Fine", "Segment", "Striped">>

main_of_bench_matrix ==
    Flatten([i \in 1..Len(SweptTables) |-> sweep_impl(SweptTables[i], TRUE)])
    \o Flatten([i \in 1..Len(SweptTables) |-> sweep_impl(SweptTables[i], FALSE)])

Points(file) ==
    IF file = "bench_matrix" THEN main_of_bench_matrix ELSE run_matrix_for_impl

OpsOf(pt) == IF pt.mode = "strong" THEN strong_ops ELSE weak_ops_per_thread * pt.T

\* (mix==0.8?"80/20":"50/50"), and the longer form of bench_matrix.cpp.
MixLabel(file, mix) ==
    IF file = "bench_matrix"
    THEN IF mix = 80 THEN "80/20"
         ELSE IF mix = 50 THEN "50/50" ELSE IF mix = 95 THEN "95/5" ELSE "mix"
    ELSE IF mix = 80 THEN "80/20" ELSE "50/50"

\* The time measured by the n-th call of run_workload of execution e.
Measure(e, n) == [exec |-> e, run |-> n]

Quotient(a, b) == [num |-> a, den |-> b]

\* The decisions of the second loop of run_workload run by one thread: for
\* every iteration, whether it reads, and the key it searches or inserts.
RECURSIVE DecisionsFrom(_, _, _, _, _, _, _)
DecisionsFrom(i, mixed, initial, read_ratio, skewed, rng, hot) ==
    IF i >= mixed THEN <<>>
    ELSE LET is_read == uniform_real_distribution(rng) < read_ratio
             d       == draw(hot)
             key     == IF skewed THEN d.value ELSE i % initial
         IN  <<[is_read |-> is_read, key |-> IF is_read THEN key ELSE initial + i]>>
             \o DecisionsFrom(i + 1, mixed, initial, read_ratio, skewed,
                              Advance(rng, 2), IF skewed THEN d.hg ELSE hot)

Decisions(total_ops, read_ratio, skewed, p_hot) ==
    LET initial == total_ops \div 2
    IN  DecisionsFrom(0, total_ops - initial, initial, read_ratio, skewed,
                      mt19937(12648430),
                      HotsetGenOfMatrix(initial, Max(1, initial \div 10), p_hot, 12345))

\* The order of the strings the keys of the cache hold.
StringOrder == <<"skew", "strong", "uniform", "weak">>

StringLess(a, b) ==
    \E i, j \in 1..Len(StringOrder) : StringOrder[i] = a /\ StringOrder[j] = b /\ i < j

BaselineKey(md, read_ratio, dist, bucket_count, p_hot, n) ==
    [mode |-> md, read_ratio |-> read_ratio, dist |-> dist, buckets |-> bucket_count,
     p_hot |-> p_hot, ops |-> n]

\* bool operator<(const BaselineKey& o) const
KeyLess(k, o) ==
    IF k.mode # o.mode THEN StringLess(k.mode, o.mode)
    ELSE IF k.read_ratio # o.read_ratio THEN k.read_ratio < o.read_ratio
    ELSE IF k.dist # o.dist THEN StringLess(k.dist, o.dist)
    ELSE IF k.buckets # o.buckets THEN k.buckets < o.buckets
    ELSE IF k.p_hot # o.p_hot THEN k.p_hot < o.p_hot
    ELSE k.ops < o.ops

\* BaselineKey bk{mode, mix, "uniform", buckets, 0.0, ops}, and the one of a
\* skewed datapoint.
bk(pt) == BaselineKey(pt.mode, pt.mix, pt.dist, pt.buckets, pt.p_hot, OpsOf(pt))

\* cache.find(k): the entries whose key is neither less nor greater than k.
find(cache, k) == {en \in cache : ~KeyLess(en.key, k) /\ ~KeyLess(k, en.key)}

\* A cache that keeps nothing.
StoreNothing(cache, k, t) == cache

\* cache[k] = t;
Store(cache, k, t) == (cache \ find(cache, k)) \cup {[key |-> k, time |-> t]}

\* Row{...}: the members take the values in their order; a member without a
\* value is zero.
AggregateInit(members, values) ==
    [mb \in {members[i] : i \in 1..Len(members)} |->
        LET i == CHOOSE j \in 1..Len(members) : members[j] = mb
        IN  IF i <= Len(values) THEN values[i] ELSE 0]

Row(file) ==
    IF file = "bench_matrix"
    THEN <<"impl", "mode", "mix", "dist", "threads", "ops", "buckets",
           "read_ratio", "p_hot", "time_s", "thr_mops", "speedup">>
    ELSE <<"impl", "mode", "mix", "dist", "threads", "ops", "buckets",
           "read_ratio", "p_hot", "time_s", "thr_mops", "speedup", "seq_baseline_s">>

\* std::fixed << std::setprecision(digits) << x
Fixed(x, digits) == [value |-> x, precision |-> digits]

\* One line of the CSV block; its last column is the row's seq_baseline_s
\* (bench_matrix_simple.cpp) or main's baseline (bench_matrix.cpp).
CsvLine(r, last) ==
    <<r.impl, r.mode, r.mix, r.dist, r.threads, r.ops, r.buckets,
      Fixed(r.read_ratio, 2), Fixed(r.p_hot, 2), Fixed(r.time_s, 6),
      Fixed(r.thr_mops, 3), Fixed(r.speedup, 3), Fixed(last, 6)>>

Columns ==
    <<"impl", "mode", "mix", "dist", "threads", "ops", "bucket_count", "read_ratio",
      "p_hot", "time_s", "throughput_mops", "speedup", "seq_baseline_s">>

Column(line, name) == line[CHOOSE i \in 1..Len(Columns) : Columns[i] = name]

\* An execution at the start of main.  seq_runs, made and decisions are kept
\* for the properties: the sequential runs with their keys and times, the
\* datapoint and the time behind every row, and the decisions of the last
\* call of run_workload that ran one thread.
StartOfMain(file, impl) ==
    [file |-> file, impl |-> impl,
     phase |-> IF file = "bench_matrix" THEN "start" ELSE "baseline",
     p |-> 1, cache |-> {}, base_t |-> 0, baseline |-> 0, rows |-> <<>>, out |-> <<>>,
     clock |-> 0, seq_runs |-> <<>>, made |-> <<>>, decisions |-> <<>>]

Impls == {"Coarse", "Fine", "Segment", "Lock-Free"}

InitMatrixWith(files, executions) ==
    /\ InitTable({Config("Sequential", 16384, 0, 0)}, "matrix")
    /\ workload = NoWorkload
    /\ \E f \in files : \E i \in (IF f = "bench_matrix" THEN {"all"} ELSE Impls) :
          matrix = [e \in executions |-> StartOfMain(f, i)]

Phase == matrix[1].phase

File == matrix[1].file

MatrixFrame == TableFrame /\ UNCHANGED workload

\* double baseline = run_workload<SequentialHashTable<int,int>>(1, strong_ops, 0.8, false, 16384);
MainBaselineOf(m, e) ==
    LET t == Measure(e, m.clock)
    IN  [m EXCEPT !.baseline = t, !.clock = @ + 1, !.phase = "run",
                  !.seq_runs = Append(@, [key |-> BaselineKey("strong", 80, "uniform", 16384,
                                                              0, strong_ops),
                                          time |-> t]),
                  !.decisions = Decisions(strong_ops, 80, FALSE, 90)]

MainBaseline ==
    /\ mode = "matrix"
    /\ Phase = "start"
    /\ matrix' = [e \in DOMAIN matrix |-> MainBaselineOf(matrix[e], e)]
    /\ MatrixFrame

\* get_baseline(bk, hot_frac, baseline_cache)
get_baseline(m, e) ==
    LET pt == Points(m.file)[m.p]
        k  == bk(pt)
        it == find(m.cache, k)
        t  == Measure(e, m.clock)
    IN  IF it # {}
        THEN [m EXCEPT !.base_t = (CHOOSE en \in it : TRUE).time, !.phase = "run"]
        ELSE [m EXCEPT !.base_t = t, !.phase = "run", !.clock = @ + 1,
                       !.cache = Store(@, k, t),
                       !.seq_runs = Append(@, [key |-> k, time |-> t]),
                       !.decisions = Decisions(k.ops, k.read_ratio, k.dist = "skew", k.p_hot)]

GetBaseline ==
    /\ mode = "matrix"
    /\ Phase = "baseline"
    /\ matrix' = [e \in DOMAIN matrix |-> get_baseline(matrix[e], e)]
    /\ MatrixFrame

\* The values of Row{...} of sweep_impl moved to run_matrix_for_impl: none
\* for read_ratio.
InitialiserWithoutReadRatio(m, pt, n, t, thr, spd) ==
    <<m.impl, pt.mode, MixLabel(m.file, pt.mix), pt.dist, pt.T, n, pt.buckets,
      pt.p_hot, t, thr, spd, m.base_t>>

\* The values of Row{...} of run_matrix_for_impl.
Initialiser(m, pt, n, t, thr, spd) ==
    <<m.impl, pt.mode, MixLabel(m.file, pt.mix), pt.dist, pt.T, n, pt.buckets,
      pt.mix, pt.p_hot, t, thr, spd, m.base_t>>

\* One datapoint of run_matrix_for_impl: the run, and the row.
DatapointOfSimple(m, e) ==
    LET pt  == Points(m.file)[m.p]
        n   == OpsOf(pt)
        t   == Measure(e, m.clock)
        thr == Quotient(Quotient(n, t), 1000000)
        spd == Quotient(m.base_t, t)
        row == AggregateInit(Row(m.file), Initialiser(m, pt, n, t, thr, spd))
    IN  [m EXCEPT !.rows = Append(@, row), !.clock = @ + 1, !.p = @ + 1,
                  !.phase = IF m.p = Len(Points(m.file)) THEN "print" ELSE "baseline",
                  !.made = Append(@, [point |-> pt, ops |-> n, time |-> t]),
                  !.decisions = IF pt.T = 1
                                THEN Decisions(n, pt.mix, pt.dist = "skew", pt.p_hot)
                                ELSE @]

RunOfSimple ==
    /\ mode = "matrix"
    /\ Phase = "run"
    /\ File = "bench_matrix_simple"
    /\ matrix' = [e \in DOMAIN matrix |-> DatapointOfSimple(matrix[e], e)]
    /\ MatrixFrame

\* One datapoint of sweep_impl.
DatapointOfMatrix(m, e) ==
    LET pt  == Points(m.file)[m.p]
        n   == OpsOf(pt)
        is_skew == pt.dist = "skew"
        t   == Measure(e, m.clock)
        thr == Quotient(Quotient(n, t), 1000000)
        spd == Quotient(m.baseline, t)
        row == AggregateInit(Row(m.file),
                   <<pt.impl, pt.mode, MixLabel(m.file, pt.mix), pt.dist, pt.T, n,
                     pt.buckets, IF is_skew THEN pt.p_hot ELSE 0, t, thr, spd>>)
    IN  [m EXCEPT !.rows = Append(@, row), !.clock = @ + 1, !.p = @ + 1,
                  !.phase = IF m.p = Len(Points(m.file)) THEN "print" ELSE "run",
                  !.made = Append(@, [point |-> pt, ops |-> n, time |-> t]),
                  !.decisions = IF pt.T = 1
                                THEN Decisions(n, pt.mix, is_skew, pt.p_hot)
                                ELSE @]

RunOfMatrix ==
    /\ mode = "matrix"
    /\ Phase = "run"
    /\ File = "bench_matrix"
    /\ matrix' = [e \in DOMAIN matrix |-> DatapointOfMatrix(matrix[e], e)]
    /\ MatrixFrame

\* for (auto& r : rows) std::cout << ...
PrintOf(m, e) ==
    LET r == m.rows[Len(m.out) + 1]
    IN  [m EXCEPT !.out = Append(@, CsvLine(r, IF m.file = "bench_matrix"
                                               THEN m.baseline ELSE r.seq_baseline_s)),
                  !.phase = IF Len(m.out) + 1 = Len(m.rows) THEN "end" ELSE "print"]

PrintRow ==
    /\ mode = "matrix"
    /\ Phase = "print"
    /\ matrix' = [e \in DOMAIN matrix |-> PrintOf(matrix[e], e)]
    /\ MatrixFrame

\* bench_matrix_simple, one execution.
InitMatrixSimple == InitMatrixWith({"bench_matrix_simple"}, {1})
NextMatrixSimple == GetBaseline \/ RunOfSimple \/ PrintRow
SpecMatrixSimple == InitMatrixSimple /\ [][NextMatrixSimple]_vars

\* bench_matrix_simple or bench_matrix, one execution.
InitMatrix == InitMatrixWith({"bench_matrix_simple", "bench_matrix"}, {1})
NextMatrix == MainBaseline \/ GetBaseline \/ RunOfSimple \/ RunOfMatrix \/ PrintRow
SpecMatrix == InitMatrix /\ [][NextMatrix]_vars

\* bench_matrix_simple, two executions.
InitTwoRuns == InitMatrixWith({"bench_matrix_simple"}, {1, 2})
NextTwoRuns == GetBaseline \/ RunOfSimple \/ PrintRow
SpecTwoRuns == InitTwoRuns /\ [][NextTwoRuns]_vars

\* C26: within one sweep the sequential workload runs at most once for each
\* key (mode, read_ratio, distribution, buckets, p_hot, ops): no key of a
\* sequential run is the key of an earlier one, and the time every request
\* returns is the time of the run with the key of the datapoint, the run of
\* the first request.
C26_BaselineRunsOncePerKey ==
    mode = "matrix" =>
        \A e \in DOMAIN matrix :
            LET m == matrix[e]
                n == Len(m.seq_runs)
            IN  /\ \A i \in 1..(n - 1) : m.seq_runs[i].key # m.seq_runs[n].key
                /\ m.phase = "run" =>
                      \E i \in 1..n :
                          /\ m.seq_runs[i].key = bk(Points(m.file)[m.p])
                          /\ m.seq_runs[i].time = m.base_t
                          /\ m.cache = {m.seq_runs[j] : j \in 1..n}

\* A request answered from the cache: the time it returns for a skewed
\* datapoint of 16 threads is not the one of the last measurement.
C26_Witness ==
    /\ mode = "matrix"
    /\ matrix[1].phase = "run"
    /\ Points(matrix[1].file)[matrix[1].p].T = 16
    /\ Points(matrix[1].file)[matrix[1].p].dist = "skew"
    /\ Len(matrix[1].rows) > 0
    /\ matrix[1].base_t # Measure(1, matrix[1].clock - 1)

\* The configuration of a datapoint: its p_hot counts when it is skewed.
ConfigOf(pt) ==
    BaselineKey(pt.mode, pt.mix, pt.dist, pt.buckets,
                IF pt.dist = "skew" THEN pt.p_hot ELSE 0, OpsOf(pt))

\* The line of the CSV block printed last, and the datapoint and the time
\* behind it.
LastLine(m) == m.out[Len(m.out)]

LastMade(m) == m.made[Len(m.out)]

\* C27: the speedup of every row that is printed is baseline_time / time,
\* where time is the time measured for the row and baseline_time the time of
\* a sequential run with the configuration (mode, read_ratio, distribution,
\* buckets, p_hot, ops) of the row.
C27_SpeedupAgainstOwnBaseline ==
    mode = "matrix" =>
        \A e \in DOMAIN matrix :
            LET m == matrix[e]
            IN  Len(m.out) > 0 =>
                    \E i \in 1..Len(m.seq_runs) :
                        /\ m.seq_runs[i].key = ConfigOf(LastMade(m).point)
                        /\ Column(LastLine(m), "speedup")
                             = Fixed(Quotient(m.seq_runs[i].time, LastMade(m).time), 3)
                        /\ m.rows[Len(m.out)].speedup
                             = Quotient(m.seq_runs[i].time, LastMade(m).time)

\* C28: in every line of the CSV block the columns carry the values of the
\* datapoint that produced the row: read_ratio is the read ratio it ran
\* with, time_s the time measured, throughput_mops is ops / time / 1e6, and
\* p_hot is 0.0 when dist is uniform and the p_hot it ran with when dist is
\* skew.
C28_ColumnsCarryConfiguration ==
    mode = "matrix" =>
        \A e \in DOMAIN matrix :
            LET m  == matrix[e]
                pt == LastMade(m).point
                t  == LastMade(m).time
            IN  Len(m.out) > 0 =>
                    /\ Column(LastLine(m), "read_ratio") = Fixed(pt.mix, 2)
                    /\ Column(LastLine(m), "time_s") = Fixed(t, 6)
                    /\ Column(LastLine(m), "throughput_mops")
                         = Fixed(Quotient(Quotient(Column(LastLine(m), "ops"), t), 1000000), 3)
                    /\ Column(LastLine(m), "ops") = OpsOf(pt)
                    /\ Column(LastLine(m), "dist") = pt.dist
                    /\ Column(LastLine(m), "p_hot")
                         = Fixed(IF pt.dist = "uniform" THEN 0 ELSE pt.p_hot, 2)

\* The columns in which the lines printed last by two executions differ.
Differing ==
    {c \in {Columns[i] : i \in 1..Len(Columns)} :
        Column(LastLine(matrix[1]), c) # Column(LastLine(matrix[2]), c)}

\* The decisions of the last run of one thread are those of the other
\* execution.
SameDecisions == matrix[1].decisions = matrix[2].decisions

TwoRuns == mode = "matrix" /\ DOMAIN matrix = {1, 2}

\* C29 as stated: two executions of bench_matrix_simple with the same seeds
\* and bucket counts take the same read/write decisions with the same keys in
\* their runs of one thread, and their CSV rows are the same in every column
\* except time_s and throughput_mops, whatever times they measure.
C29_SameExceptTimeAndThroughput ==
    TwoRuns =>
        /\ SameDecisions
        /\ Len(matrix[1].out) = Len(matrix[2].out)
        /\ Len(matrix[1].out) > 0 => Differing \subseteq {"time_s", "throughput_mops"}

\* C29, amended: two executions of bench_matrix_simple with the same seeds
\* and bucket counts take the same read/write decisions with the same keys in
\* their runs of one thread, and their CSV rows are the same in every column
\* except time_s, throughput_mops, speedup and seq_baseline_s, whatever times
\* they measure.
C29_SameExceptMeasuredColumns ==
    TwoRuns =>
        /\ SameDecisions
        /\ Len(matrix[1].out) = Len(matrix[2].out)
        /\ Len(matrix[1].out) > 0 =>
              Differing \subseteq {"time_s", "throughput_mops", "speedup", "seq_baseline_s"}

\* Both executions have printed the row of a skewed datapoint of one thread,
\* their times differ, and the last run of one thread took a read and a write.
C29_Witness ==
    /\ TwoRuns
    /\ Len(matrix[1].out) > 0
    /\ Column(LastLine(matrix[1]), "threads") = 1
    /\ Column(LastLine(matrix[1]), "dist") = "skew"
    /\ Differing = {"time_s", "throughput_mops", "speedup", "seq_baseline_s"}
    /\ \E i, j \in 1..Len(matrix[2].decisions) :
          matrix[2].decisions[i].is_read /\ ~matrix[2].decisions[j].is_read

\* C30: for every sequence of insert, search and remove calls of one caller,
\* every table returns from every call what SequentialHashTable returns from
\* it after the same calls (the result, and the value of a search that
\* finds its key), no call kills the process, and size() after the call is
\* the size() of SequentialHashTable, whatever the bucket count.
C30_SequentialRefinement ==
    mode = "seq" =>
        /\ ~crashed
        /\ th[1].pc = "done" =>
              /\ th[1].res = th[1].exp.res
              /\ th[1].op = "search" /\ th[1].exp.res => th[1].out = th[1].exp.out
              /\ element_count = Cardinality(Present)

(***************************************************************************)
(* Placement, index functions and constructors.                            *)
(***************************************************************************)
\* Every entry a bucket holds has a key whose index is that bucket.
Placed ==
    \A b \in DOMAIN buckets :
        \A i \in 1..Len(Contents(b)) : BucketOf(Contents(b)[i].key) = b

\* The thread that takes the step, when one thread's position changes.
Stepping(t) == th'[t] # th[t]

\* The bucket a step changes is the bucket of the key of the thread that
\* takes it.
OnlyOwnBucketChanges ==
    \A b \in DOMAIN buckets :
        mode \in {"seq", "mixed", "fill", "reuse"} /\ buckets'[b] # buckets[b] =>
            \E t \in Threads :
                Stepping(t) /\ ~Crashes(th[t].key) /\ BucketOf(th[t].key) = b

\* C31: in every table and every reachable state each stored entry with key
\* k lies in the bucket the table's index function gives for hash(k); a
\* method on k reads and changes that bucket only (the list or the head of
\* another bucket changes in no step of it), and no step changes the keys
\* that another bucket holds.
C31_EntriesStayInTheirBucket ==
    /\ [](mode \in {"seq", "mixed", "fill", "reuse"} => Placed)
    /\ [][OnlyOwnBucketChanges]_vars

\* Hash values enough to select every bucket of every segment twice.
HashValues == 0..(2 * SEG_NUM_SEGMENTS * SegBps - 1)

\* The bucket a segment-based table selects for the hash value h.
SegmentedBucket(h) ==
    IF cfg.variant = "Segment" THEN SegmentBucket(h) ELSE SegmentPaddedBucket(h)

\* C32: in the segment-based tables (Segment and SegmentPadded) a key with
\* hash h goes to segment h mod S and in it to bucket (h / S) mod bps, and
\* every bucket of every segment is selected by some hash value.
C32_SegmentThenHigherBits ==
    cfg.variant \in {"Segment", "SegmentPadded"} =>
        /\ \A h \in HashValues :
              SegmentedBucket(h) = <<h % SEG_NUM_SEGMENTS, (h \div SEG_NUM_SEGMENTS) % SegBps>>
        /\ \A s \in 0..(SEG_NUM_SEGMENTS - 1) : \A j \in 0..(SegBps - 1) :
              \E h \in HashValues : SegmentedBucket(h) = <<s, j>>

(***************************************************************************)
(* choose_stripes on its own: the constructor's call for one segment, for  *)
(* every expected thread count and every number of buckets of a segment.   *)
(***************************************************************************)
InitStripes ==
    /\ InitTable({Config("AGH", 384, 0, 4)}, "stripes")
    /\ matrix = NoMatrix
    /\ \E T \in 1..MaxExpectedThreads : \E bps \in 1..MaxBps :
          workload = [phase |-> "stripes", expected_threads |-> T, bps |-> bps,
                      chosen |-> FALSE, segment |-> Segment(bps, 0)]

\* size_t stripes = choose_stripes(bps, expected_threads);
\* segments.push_back(new Segment(bps, stripes));
ChooseStripes ==
    /\ mode = "stripes"
    /\ ~workload.chosen
    /\ workload' = [workload EXCEPT
          !.chosen = TRUE,
          !.segment = Segment(workload.bps,
                              choose_stripes(workload.bps, workload.expected_threads))]
    /\ TableFrame
    /\ UNCHANGED matrix

NextStripes == ChooseStripes
SpecStripes == InitStripes /\ [][NextStripes]_vars

PowersOfTwo == {1, 2, 4, 8, 16, 32, 64, 128}

\* The least power of two that is not below n.
NextPowerOfTwo(n) == CHOOSE p \in PowersOfTwo : p >= n /\ \A q \in PowersOfTwo : q >= n => p <= q

\* C33: for every expected thread count T >= 1 and every bps >= 1 the stripe
\* count K of a segment is next_power_of_two(T / 2) (integer division),
\* clamped to [1, 32] and halved until K <= bps, that is the greatest power
\* of two that exceeds neither the clamped value nor bps; K is a power of two
\* with 1 <= K <= 32 and K <= bps, and the segment's mask is K - 1.
C33_StripeCount ==
    mode = "stripes" /\ workload.chosen =>
        LET K       == workload.segment.stripe_count
            clamped == Min(AGH_MAX_STRIPES,
                           Max(1, NextPowerOfTwo(workload.expected_threads
                                                 \div AGH_STRIPE_FACTOR)))
        IN  /\ K \in PowersOfTwo
            /\ 1 <= K /\ K <= AGH_MAX_STRIPES /\ K <= workload.bps
            /\ K <= clamped
            /\ \A p \in PowersOfTwo : p <= clamped /\ p <= workload.bps => p <= K
            /\ workload.segment.stripe_mask = K - 1

\* Stripes chosen for more than 64 expected threads and a segment of five
\* buckets: 64 is clamped to 32 and halved to 4.
C33_Witness ==
    /\ mode = "stripes"
    /\ workload.chosen
    /\ workload.expected_threads > 2 * AGH_MAX_STRIPES + 1
    /\ workload.bps = 5
    /\ workload.segment.stripe_count = 4

(***************************************************************************)
(* The constructor of AGHHashTable on its own, one pass of its loop per    *)
(* step, for every requested bucket count up to MaxBucketCount.            *)
(***************************************************************************)
InitConstructor ==
    /\ InitTable({Config("AGH", 384, 0, 4)}, "constructor")
    /\ matrix = NoMatrix
    /\ \E B \in 0..MaxBucketCount : \E T \in {1, 4} :
          workload = [phase |-> "constructor", bucket_count |-> B, expected_threads |-> T,
                      requested_bucket_count |-> B, segments |-> <<>>]

\* for (size_t i = 0; i < NUM_SEGMENTS; ++i) { ... segments.push_back(...); }
PushSegment ==
    /\ mode = "constructor"
    /\ Len(workload.segments) < AGH_NUM_SEGMENTS
    /\ workload' = [workload EXCEPT !.segments =
          Append(@, AGHSegment(Len(workload.segments), workload.bucket_count,
                               workload.expected_threads))]
    /\ TableFrame
    /\ UNCHANGED matrix

NextConstructor == PushSegment
SpecConstructor == InitConstructor /\ [][NextConstructor]_vars

\* The buckets of the segments lo..hi of a table taken together.
RECURSIVE BucketsIn(_, _, _)
BucketsIn(segs, lo, hi) ==
    IF lo > hi THEN 0
    ELSE IF lo = hi THEN segs[lo].buckets_per_segment
    ELSE LET mid == (lo + hi) \div 2
         IN  BucketsIn(segs, lo, mid) + BucketsIn(segs, mid + 1, hi)

\* size_t effective_bucket_count() const { return requested_bucket_count; }
effective_bucket_count == workload.requested_bucket_count

\* C34: for a requested bucket count B and S segments, segment i gets
\* ceil(B / S) buckets when i < B mod S and floor(B / S) otherwise, and once
\* the constructor has built all S segments their bucket counts add up to
\* B, the value effective_bucket_count() reports.
C34_ExactBucketDistribution ==
    mode = "constructor" =>
        LET B    == workload.bucket_count
            S    == AGH_NUM_SEGMENTS
            segs == workload.segments
        IN  /\ \A i \in 1..Len(segs) :
                  segs[i].buckets_per_segment =
                      IF i - 1 < B % S THEN (B + S - 1) \div S ELSE B \div S
            /\ Len(segs) = S =>
                  /\ BucketsIn(segs, 1, S) = B
                  /\ effective_bucket_count = B

\* A table of 200 buckets is built: 72 segments of two buckets, 56 of one.
C34_Witness ==
    /\ mode = "constructor"
    /\ workload.bucket_count = 200
    /\ Len(workload.segments) = AGH_NUM_SEGMENTS
    /\ workload.segments[72].buckets_per_segment = 2
    /\ workload.segments[73].buckets_per_segment = 1

(***************************************************************************)
(* The guards of the lock-based tables.  omp_set_lock is fair: a thread    *)
(* that finds its guard unset again and again gets it; a thread inside a   *)
(* method keeps running.  The callers may stop calling at any time.        *)
(***************************************************************************)
InGuardedCode(t) == Scan(t) \/ Apply(t) \/ omp_unset_lock(t)

LockFairness ==
    \A t \in Threads :
        /\ WF_vars(InGuardedCode(t))
        /\ SF_vars(omp_set_lock(t))

SpecLockFair == SpecLock /\ LockFairness

OneGuardHeld ==
    \A t \in Threads :
        Held(t) = IF InLock(t) THEN {LockOf(th[t].key)} ELSE {}

\* A guard is only taken by a thread that holds none.
NoSecondGuard ==
    \A t \in Threads : Held(t) # {} => (Held(t))' \subseteq Held(t)

\* C35: in the lock-based tables a thread inside a method holds exactly
\* the one guard of its key and never takes a second one, a thread outside
\* holds none (so no guard is held when no method is in flight), and under
\* fair lock acquisition every method that was entered returns.
C35_OneGuardAndEveryMethodReturns ==
    /\ [](OneGuardHeld /\ (Quiescent => \A l \in DOMAIN locks : locks[l] = 0))
    /\ [][NoSecondGuard]_vars
    /\ \A t \in Threads : (th[t].pc \notin {"idle", "done"}) ~> (th[t].pc = "done")

(***************************************************************************)
(* The size counter.                                                       *)
(***************************************************************************)
\* C36: in every reachable state the counter has been decremented at most
\* as often as it has been incremented (it does not wrap below zero), and
\* size() is at most the number of inserts so far: the inserts and
\* increments entered so far are at most ops, and each counts up at most
\* once.
C36_CounterNeverWraps ==
    /\ element_count >= 0
    /\ element_count <= ops

(***************************************************************************)
(* What a method leaves alone.                                             *)
(***************************************************************************)
\* The method and the key of the thread that takes a step: those of the
\* call it enters with this step, or of the call it is in.
StepOp(t)  == IF th[t].pc \in {"idle", "done"} THEN th'[t].op ELSE th[t].op
StepKey(t) == IF th[t].pc \in {"idle", "done"} THEN th'[t].key ELSE th[t].key

FrameOfStep(t) ==
    /\ \A k \in Keys \ {StepKey(t)} : (Entries(k))' = Entries(k)
    /\ StepOp(t) = "search" =>
          /\ \A k \in Keys : (Entries(k))' = Entries(k)
          /\ element_count' = element_count
          /\ th[t].pc \notin {"idle", "done"} /\ th'[t].out # th[t].out =>
                th'[t].res /\ th'[t].pc \in {"done", "release"}

\* C37: no step of search changes the stored entries or the counter, and a
\* search changes its output value only when it returns true; no step of
\* insert, increment or remove on key k changes the entries stored under
\* another key, in the same bucket or elsewhere.
C37_FrameOfMapOperations ==
    [][\A t \in Threads : Stepping(t) => FrameOfStep(t)]_vars

(***************************************************************************)
(* deduplicateWithLibrary: the threads of an omp for loop over the data    *)
(* set run "if (!seen.search(data[i], exists)) seen.insert(data[i], true)" *)
(* on a FineGrainedHashTable; the loop's iterations are dealt out in one   *)
(* contiguous chunk per thread.  The value true is stored as 1.            *)
(***************************************************************************)
DataSets == UNION {[1..n -> Keys] : n \in 1..MaxData}

InitDedup ==
    /\ InitTable({Config("Fine", 2, 0, 0)}, "dedup")
    /\ matrix = NoMatrix
    /\ \E data \in DataSets : \E T \in Threads :
          workload = [phase |-> "dedup", data |-> data, threads |-> T,
                      total_count |-> Len(data), unique_count |-> 0,
                      next |-> [t \in Threads |-> ChunkLo(t - 1, Len(data), T)],
                      stage |-> [t \in Threads |-> "search"]]

\* if (!seen.search(data[i], exists))
DedupSearch(t) ==
    LET i == workload.next[t] IN
    /\ workload.phase = "dedup"
    /\ t \in Workers
    /\ workload.stage[t] = "search"
    /\ i < ChunkHi(t - 1, Len(workload.data), workload.threads)
    /\ Enter(t, [op |-> "search", key |-> workload.data[i + 1], val |-> 0])
    /\ workload' = [workload EXCEPT !.stage[t] = "decide"]
    /\ UNCHANGED matrix

\* seen.insert(data[i], true);
DedupInsert(t) ==
    LET i == workload.next[t] IN
    /\ workload.phase = "dedup"
    /\ workload.stage[t] = "decide"
    /\ th[t].pc = "done"
    /\ ~th[t].res
    /\ Enter(t, [op |-> "insert", key |-> workload.data[i + 1], val |-> 1])
    /\ workload' = [workload EXCEPT !.stage[t] = "search", !.next[t] = i + 1]
    /\ UNCHANGED matrix

\* If already exists, skip.
DedupSkip(t) ==
    /\ workload.phase = "dedup"
    /\ workload.stage[t] = "decide"
    /\ th[t].pc = "done"
    /\ th[t].res
    /\ workload' = [workload EXCEPT !.stage[t] = "search", !.next[t] = @ + 1]
    /\ TableFrame
    /\ UNCHANGED matrix

\* The end of the parallel region: unique_count = seen.size();
EndDedup ==
    /\ workload.phase = "dedup"
    /\ \A t \in Workers :
          /\ workload.next[t] = ChunkHi(t - 1, Len(workload.data), workload.threads)
          /\ workload.stage[t] = "search"
          /\ th[t].pc \in {"idle", "done"}
    /\ workload' = [workload EXCEPT !.phase = "end", !.unique_count = element_count]
    /\ TableFrame
    /\ UNCHANGED matrix

NextDedup ==
    \/ \E t \in Threads :
          \/ DedupSearch(t) \/ DedupInsert(t) \/ DedupSkip(t)
          \/ omp_set_lock(t) \/ Scan(t) \/ Apply(t) \/ omp_unset_lock(t)
    \/ EndDedup

SpecDedup == InitDedup /\ [][NextDedup]_vars

\* The distinct values of a data set.
Distinct(data) == {data[i] : i \in 1..Len(data)}

\* C38: whatever the interleaving of the threads' searches and inserts, the
\* size() read after the loop is the number of distinct values of the data
\* set, and the table holds each of them once.
C38_DedupCountsDistinctValues ==
    mode = "dedup" /\ workload.phase = "end" =>
        /\ workload.unique_count = Cardinality(Distinct(workload.data))
        /\ \A k \in Keys :
              Entries(k) = IF k \in Distinct(workload.data) THEN <<1>> ELSE <<>>

\* Two threads both missed the same value and both inserted it: the insert
\* of one of them found the other's entry and returned false.
C38_Witness ==
    /\ mode = "dedup"
    /\ workload.phase = "end"
    /\ \E t \in Workers : th[t].op = "insert" /\ ~th[t].res

====
